---------------------------- MODULE Spec2Model ----------------------------
(***************************************************************************)
(* A model of the bar-by-bar backtest simulator of CorrAI_quantlab         *)
(* (src/src/backtest.cpp, src/include/backtest.h).                         *)
(*                                                                         *)
(* One behaviour of the model is one call of Backtest::runSingleBacktest   *)
(* on a Backtest object whose configuration was fixed by the constructor.  *)
(* The input vectors (prices, entries, exits) are immutable and element i  *)
(* is read only while bar i is processed, so the model draws element i     *)
(* when bar i begins instead of drawing whole vectors up front.            *)
(*                                                                         *)
(* double values are modelled as exact rationals <<numerator, denominator>>*)
(* in lowest terms with a positive denominator; rounding is not modelled.  *)
(***************************************************************************)
EXTENDS Integers, Sequences, FiniteSets, TLC

(***************************************************************************)
(* Bounds of the model.                                                    *)
(***************************************************************************)
\* the largest number of bars (length of the input vectors) explored
MaxBars == 3
\* minHolding and maxHolding range over 0..MaxHold
MaxHold == 2
\* maxPositions ranges over 0..MaxCap
MaxCap == 2
\* the largest number of bars explored when run() is called twice
MaxBarsTwice == 2
\* largest size of a vector passed to a constructor
MaxLenCtor == 2
\* the longest series explored in a multi-run
MaxBarsMulti == 2
\* bars and trades of a backtest call made through the binding
MaxBarsBinding == 2
MaxLedgerBinding == 1
\* bars and trades given to the account-details writer
MaxBarsAccount == 3
MaxLedgerAccount == 2
\* the largest bar price explored in double arithmetic
MaxPriceDouble == 16

(***************************************************************************)
(* Exact arithmetic standing for the code's double arithmetic.             *)
(***************************************************************************)
Abs(n) == IF n < 0 THEN -n ELSE n

RECURSIVE Gcd(_, _)
Gcd(a, b) == IF b = 0 THEN a ELSE Gcd(b, a % b)

\* the rational n/d in lowest terms (d # 0)
Rat(n, d) ==
    LET s == IF d < 0 THEN -1 ELSE 1
        g == Gcd(Abs(n), Abs(d))
    IN  <<(s * n) \div g, (s * d) \div g>>

Zero == Rat(0, 1)
One == Rat(1, 1)
Hundred == Rat(100, 1)
FromInt(n) == Rat(n, 1)

\* sums and comparisons go through the least common denominator and products
\* cancel crosswise first, so that intermediate integers stay small
Add(x, y) ==
    LET g == Gcd(x[2], y[2])
    IN  Rat(x[1] * (y[2] \div g) + y[1] * (x[2] \div g), (x[2] \div g) * y[2])
Neg(x) == <<-x[1], x[2]>>
Sub(x, y) == Add(x, Neg(y))
Mul(x, y) ==
    LET g1 == Gcd(Abs(x[1]), y[2])
        g2 == Gcd(Abs(y[1]), x[2])
    IN  Rat((x[1] \div g1) * (y[1] \div g2), (x[2] \div g2) * (y[2] \div g1))
\* x / y for y # 0
Div(x, y) == Mul(x, Rat(y[2], y[1]))
Lt(x, y) ==
    LET g == Gcd(x[2], y[2])
    IN  x[1] * (y[2] \div g) < y[1] * (x[2] \div g)
Le(x, y) ==
    LET g == Gcd(x[2], y[2])
    IN  x[1] * (y[2] \div g) <= y[1] * (x[2] \div g)
Gt(x, y) == Lt(y, x)
Ge(x, y) == Le(y, x)

(***************************************************************************)
(* Enumerations and strings of the program.                                *)
(***************************************************************************)
TradeTypes == {"LONG", "SHORT", "LONG_SHORT"}
SignalPriorityModes == {"EXIT_FIRST", "ENTRY_FIRST", "SAME_BAR_TRADE"}

\* exitReasonToString: the string stored in Trade::exitReason
exitReasonToString(reason) ==
    CASE reason = "TAKE_PROFIT" -> "Take Profit"
      [] reason = "STOP_LOSS" -> "Stop Loss"
      [] reason = "EXIT_SIGNAL" -> "Exit Signal"
      [] reason = "MAX_HOLDING_PERIOD" -> "Max Holding Period Reached"
      [] reason = "FORCE_EXIT" -> "Force Exit due to Negative Capital"
      [] OTHER -> "Unknown"

\* the literal the end-of-run flush stores in Trade::exitReason
EndOfBacktestReason == "End of Backtest"

(***************************************************************************)
(* Inputs explored.                                                        *)
(***************************************************************************)
\* values of prices[i]
Prices == {FromInt(1), FromInt(3)}
\* values of entries[i] and exits[i]
Signals == {-1, 0, 1}
\* values of the constructor's double parameters
InitialCapitals == {FromInt(1000)}
PositionSizes == {Rat(1, 2), One}
Commissions == {Zero, Rat(1, 4)}
TakeProfits == {Zero, Rat(1, 2)}
StopLosses == {Zero, Rat(1, 4)}
Slippages == {Zero, Rat(1, 2)}

VARIABLES
    \* the arguments of the constructor call (the caller's, not program state)
    args,
    \* configuration, set by the constructor and never changed
    tradeType, startFund, eachTrade, tradeFees, tpStop, slStop,
    minHolding, maxHolding, slippagePct, maxPositions, forceCloseAtEnd,
    signalPriority,
    isMulti,             \* which constructor built the object
    params,              \* the strategy names, in the order they will run
    dataSize,            \* seriesData.prices.size()
    \* runBacktest
    param,               \* position in params of the strategy being run
    results,             \* name -> metrics, a std::map
    \* locals of runSingleBacktest
    pc,                  \* position in runSingleBacktest
    i,                   \* loop index, 0-based as in the code
    price, entrySignal, exitSignal,
    hasProcessedEntry,
    currentCapital, totalPositionValue,
    lastPrice,           \* prices[dataSize - 1], read back after the loop
    currentTrades,       \* the open set
    trades,              \* the ledger being built
    \* seriesData: 0-based bar k is element k + 1
    availableCapital, positionValue, totalCapital, dailyReturn,
    \* members of Backtest
    m_trades, result,
    \* the calls of run(): "only" when run() is called once; "first" and
    \* "second" when it is called twice on the same object
    run,
    \* the elements of data.prices, data.entries and data.exits that the
    \* first of two calls has read; the second call reads the same vectors
    inputs,
    \* what the first of two calls left in m_trades and result (not program
    \* state)
    firstRun,
    \* the strategy of a multi-run whose signals are recorded in inputs, to be
    \* run again alone (not program state)
    refName,
    \* the statics of the Python binding; a DateTime is a whole number of
    \* seconds
    last_backtest_trades, last_backtest_prices, last_backtest_dates,
    \* the rows create_account_details_with_prices last gave to the CSV file
    account_details,
    \* the arguments and the ledger of the most recent backtest call made
    \* through the binding (not program state)
    lastCall,
    \* history of the bar being processed (not program state)
    barStartCapital, barStartOpenCount, passLog,
    \* history of the run (not program state): one record per position
    \* opened, in the order of opening
    opened

cfgVars == <<args, tradeType, startFund, eachTrade, tradeFees, tpStop, slStop,
             minHolding, maxHolding, slippagePct, maxPositions,
             forceCloseAtEnd, signalPriority, isMulti, params, dataSize>>
multiVars == <<param, results, refName>>
wrapperVars == <<last_backtest_trades, last_backtest_prices,
                 last_backtest_dates, account_details, lastCall>>
barVars == <<price, entrySignal, exitSignal>>
seriesVars == <<availableCapital, positionValue, totalCapital, dailyReturn>>
histVars == <<barStartCapital, barStartOpenCount, passLog>>
runVars == <<run, inputs, firstRun>>
vars == <<cfgVars, pc, i, barVars, hasProcessedEntry, currentCapital,
          totalPositionValue, lastPrice, currentTrades, trades, seriesVars,
          m_trades, result, runVars, multiVars, histVars, opened,
          wrapperVars>>


(***************************************************************************)
(* struct Trade.  A position of the open set and a trade of the ledger are *)
(* the same struct; the exit fields keep their defaults while it is open.  *)
(***************************************************************************)
NewTrade(dir, idx, ePrice, qty, eFee, amount, value) ==
    [direction |-> dir, entryIndex |-> idx, entryPrice |-> ePrice,
     quantity |-> qty, entryFee |-> eFee, entryInvestment |-> amount,
     currentValue |-> value,
     exitIndex |-> 0, exitPrice |-> Zero, exitFee |-> Zero,
     exitValue |-> Zero, profit |-> Zero, profitPct |-> Zero,
     exitReason |-> ""]

RECURSIVE SumCurrentValue(_)
\* the loops "totalPositionValue += trade->currentValue"
SumCurrentValue(ts) ==
    IF ts = <<>> THEN Zero
    ELSE Add(SumCurrentValue(SubSeq(ts, 1, Len(ts) - 1)), ts[Len(ts)].currentValue)

\* mark-to-market of one position at the bar's price (long and short alike)
MarkValue(t, p) == Mul(t.quantity, p)

\* "trade->currentValue = trade->quantity * price" for every open position
MarkToMarket(ts, p) ==
    [k \in 1..Len(ts) |-> [ts[k] EXCEPT !.currentValue = MarkValue(ts[k], p)]]

(***************************************************************************)
(* Exit processor.                                                         *)
(***************************************************************************)
holdingPeriod(t, bar) == bar - t.entryIndex

\* pricePct: the price change relative to the entry price, in the trade's direction
pricePct(t, p) ==
    IF t.direction = "long"
    THEN Div(Sub(p, t.entryPrice), t.entryPrice)
    ELSE Div(Sub(t.entryPrice, p), t.entryPrice)

\* faulty variant of ExitDecision: the exit signal ignores minHolding
ExitDecision_NoMinHolding(t, bar, p, sig) ==
    IF Gt(tpStop, Zero) /\ Ge(pricePct(t, p), tpStop) THEN "TAKE_PROFIT"
    ELSE IF Gt(slStop, Zero) /\ Le(pricePct(t, p), Neg(slStop)) THEN "STOP_LOSS"
    ELSE IF maxHolding > 0 /\ holdingPeriod(t, bar) >= maxHolding
        THEN "MAX_HOLDING_PERIOD"
    ELSE IF \/ (t.direction = "long" /\ sig = -1)
            \/ (t.direction # "long" /\ sig = 1)
        THEN "EXIT_SIGNAL"
    ELSE "NONE"

\* faulty variant of ExitDecision: max holding is tested before the stop loss
ExitDecision_MaxHoldFirst(t, bar, p, sig) ==
    IF Gt(tpStop, Zero) /\ Ge(pricePct(t, p), tpStop) THEN "TAKE_PROFIT"
    ELSE IF maxHolding > 0 /\ holdingPeriod(t, bar) >= maxHolding
        THEN "MAX_HOLDING_PERIOD"
    ELSE IF Gt(slStop, Zero) /\ Le(pricePct(t, p), Neg(slStop)) THEN "STOP_LOSS"
    ELSE IF /\ \/ (t.direction = "long" /\ sig = -1)
               \/ (t.direction # "long" /\ sig = 1)
            /\ holdingPeriod(t, bar) >= minHolding
        THEN "EXIT_SIGNAL"
    ELSE "NONE"

\* the if / else-if chain choosing ExitReason; "NONE" when shouldExit stays false
ExitDecision(t, bar, p, sig) ==
    IF Gt(tpStop, Zero) /\ Ge(pricePct(t, p), tpStop) THEN "TAKE_PROFIT"
    ELSE IF Gt(slStop, Zero) /\ Le(pricePct(t, p), Neg(slStop)) THEN "STOP_LOSS"
    ELSE IF maxHolding > 0 /\ holdingPeriod(t, bar) >= maxHolding
        THEN "MAX_HOLDING_PERIOD"
    ELSE IF /\ \/ (t.direction = "long" /\ sig = -1)
               \/ (t.direction # "long" /\ sig = 1)
            /\ holdingPeriod(t, bar) >= minHolding
        THEN "EXIT_SIGNAL"
    ELSE "NONE"

\* exit fill price after slippage
ExitPrice(t, p) ==
    IF Gt(slippagePct, Zero)
    THEN IF t.direction = "long"
         THEN Mul(p, Sub(One, slippagePct))
         ELSE Mul(p, Add(One, slippagePct))
    ELSE p

\* exitValue: the amount added to currentCapital when the trade closes
ExitValue(t, xPrice) ==
    IF t.direction = "long"
    THEN Mul(Mul(t.quantity, xPrice), Sub(One, tradeFees))
    ELSE LET buybackCost == Mul(t.quantity, xPrice)
             exitFee == Mul(buybackCost, tradeFees)
             totalExitCost == Add(buybackCost, exitFee)
             profit == Sub(t.entryInvestment, totalExitCost)
         IN  Add(t.entryInvestment, profit)

\* faulty variant of Profit: a short's profit leaves out the exit fee
Profit_ShortNoFee(t, xPrice) ==
    IF t.direction = "long"
    THEN Sub(ExitValue(t, xPrice), t.entryInvestment)
    ELSE Sub(t.entryInvestment, Mul(t.quantity, xPrice))

\* profit of the closing trade
Profit(t, xPrice) ==
    IF t.direction = "long"
    THEN Sub(ExitValue(t, xPrice), t.entryInvestment)
    ELSE LET buybackCost == Mul(t.quantity, xPrice)
             exitFee == Mul(buybackCost, tradeFees)
         IN  Sub(t.entryInvestment, Add(buybackCost, exitFee))

\* faulty variant of CloseTrade: the exit index is the trade's entry index
CloseTrade_ExitAtEntry(t, bar, p, reasonString) ==
    LET xPrice == ExitPrice(t, p)
        profit == Profit(t, xPrice)
    IN  [t EXCEPT !.exitPrice = xPrice,
                  !.exitIndex = t.entryIndex,
                  !.exitFee = Mul(Mul(t.quantity, xPrice), tradeFees),
                  !.exitValue = ExitValue(t, xPrice),
                  !.profit = profit,
                  !.profitPct = Mul(Div(profit, t.entryInvestment), Hundred),
                  !.exitReason = reasonString]

\* the trade object after "update the trade object", closed at bar `bar`
CloseTrade(t, bar, p, reasonString) ==
    LET xPrice == ExitPrice(t, p)
        profit == Profit(t, xPrice)
    IN  [t EXCEPT !.exitPrice = xPrice,
                  !.exitIndex = bar,
                  !.exitFee = Mul(Mul(t.quantity, xPrice), tradeFees),
                  !.exitValue = ExitValue(t, xPrice),
                  !.profit = profit,
                  !.profitPct = Mul(Div(profit, t.entryInvestment), Hundred),
                  !.exitReason = reasonString]

RECURSIVE ExitLoop(_, _, _, _, _)
\* the for loop of processExitSignals over the open set, front to back;
\* acc = [open, trades, capital, hasExited]
ExitLoop(rest, acc, bar, p, sig) ==
    IF rest = <<>> THEN acc
    ELSE LET t == Head(rest)
             reason == ExitDecision(t, bar, p, sig)
             closed == CloseTrade(t, bar, p, exitReasonToString(reason))
         IN  IF reason # "NONE"
             THEN ExitLoop(Tail(rest),
                           [open |-> acc.open,
                            trades |-> Append(acc.trades, closed),
                            capital |-> Add(acc.capital, closed.exitValue),
                            hasExited |-> TRUE],
                           bar, p, sig)
             ELSE ExitLoop(Tail(rest),
                           [acc EXCEPT !.open = Append(@, t)],
                           bar, p, sig)

\* faulty variant of processExitSignals: the closed trades replace the ledger
processExitSignals_FreshLedger(open, ledger, bar, p, sig, capital) ==
    ExitLoop(open,
             [open |-> <<>>, trades |-> <<>>, capital |-> capital,
              hasExited |-> FALSE],
             bar, p, sig)

processExitSignals(open, ledger, bar, p, sig, capital) ==
    ExitLoop(open,
             [open |-> <<>>, trades |-> ledger, capital |-> capital,
              hasExited |-> FALSE],
             bar, p, sig)

(***************************************************************************)
(* Entry processor.                                                        *)
(***************************************************************************)
\* faulty variant of EntryAllowed: the capacity test is off by one
EntryAllowed_OffByOne(open, sig) ==
    /\ maxPositions = 0 \/ Len(open) <= maxPositions
    /\ sig = 1 \/ sig = -1

\* the capacity and signal test guarding the entry
EntryAllowed(open, sig) ==
    /\ maxPositions = 0 \/ Len(open) < maxPositions
    /\ sig = 1 \/ sig = -1

\* faulty variant of shouldTrade: the trade type is not consulted
shouldTrade_AnyDirection(sig) == sig = 1 \/ sig = -1

\* shouldTrade: the trade-type filter
shouldTrade(sig) ==
    \/ tradeType = "LONG" /\ sig = 1
    \/ tradeType = "SHORT" /\ sig # 1
    \/ tradeType = "LONG_SHORT"

\* faulty variant of EntryPrice: a short is filled above the bar's price, as a
\* long is
EntryPrice_AlwaysUp(isLong, p) ==
    IF Gt(slippagePct, Zero) THEN Mul(p, Add(One, slippagePct)) ELSE p

\* entry fill price after slippage
EntryPrice(isLong, p) ==
    IF Gt(slippagePct, Zero)
    THEN IF isLong
         THEN Mul(p, Add(One, slippagePct))
         ELSE Mul(p, Sub(One, slippagePct))
    ELSE p

\* faulty variant of processEntrySignals: the capital is reduced by the
\* amount net of the entry fee
processEntrySignals_DeductsNet(open, bar, p, sig, capital) ==
    IF EntryAllowed(open, sig) /\ shouldTrade(sig)
    THEN LET isLong == sig = 1
             tradeAmount == Mul(capital, eachTrade)
             entryPrice == EntryPrice(isLong, p)
             entryFee == Mul(tradeAmount, tradeFees)
             actualInvestment == Sub(tradeAmount, entryFee)
             quantity == Div(actualInvestment, entryPrice)
         IN  IF Gt(tradeAmount, Zero)
             THEN [open |-> Append(open,
                        NewTrade(IF isLong THEN "long" ELSE "short", bar,
                                 entryPrice, quantity, entryFee, tradeAmount,
                                 actualInvestment)),
                   capital |-> Sub(capital, actualInvestment),
                   hasEntered |-> TRUE]
             ELSE [open |-> open, capital |-> capital, hasEntered |-> TRUE]
    ELSE [open |-> open, capital |-> capital, hasEntered |-> FALSE]

\* result [open, capital, hasEntered]
processEntrySignals(open, bar, p, sig, capital) ==
    IF EntryAllowed(open, sig) /\ shouldTrade(sig)
    THEN LET isLong == sig = 1
             tradeAmount == Mul(capital, eachTrade)
             entryPrice == EntryPrice(isLong, p)
             entryFee == Mul(tradeAmount, tradeFees)
             actualInvestment == Sub(tradeAmount, entryFee)
             quantity == Div(actualInvestment, entryPrice)
         IN  IF Gt(tradeAmount, Zero)
             THEN [open |-> Append(open,
                        NewTrade(IF isLong THEN "long" ELSE "short", bar,
                                 entryPrice, quantity, entryFee, tradeAmount,
                                 actualInvestment)),
                   capital |-> Sub(capital, tradeAmount),
                   hasEntered |-> TRUE]
             ELSE [open |-> open, capital |-> capital, hasEntered |-> TRUE]
    ELSE [open |-> open, capital |-> capital, hasEntered |-> FALSE]

(***************************************************************************)
(* Signal priority: which processor runs at each of the bar's passes.      *)
(***************************************************************************)
\* faulty variant of FirstPass: the two orders are exchanged
FirstPass_Swapped(mode) ==
    IF mode = "ENTRY_FIRST" THEN "exit" ELSE "entry"

FirstPass(mode) ==
    IF mode = "EXIT_FIRST" \/ mode = "SAME_BAR_TRADE" THEN "exit" ELSE "entry"

\* faulty variant of SecondPass: the Entry processor runs again
SecondPass_EntryAgain(mode) == "entry"

SecondPass(mode) ==
    IF mode = "EXIT_FIRST" \/ mode = "SAME_BAR_TRADE" THEN "entry" ELSE "exit"

\* the second exit attempt of SAME_BAR_TRADE
ThirdPass(mode, entered, sig) ==
    IF mode = "SAME_BAR_TRADE" /\ entered /\ sig # 0 THEN "exit" ELSE "none"

\* faulty variant of PassAt: every mode runs the Entry processor first and
\* the Exit processor after it
PassAt_EntryThenExit ==
    CASE pc = "pass1" -> "entry"
      [] pc = "pass2" -> "exit"
      [] pc = "pass3" ->
            ThirdPass(signalPriority, hasProcessedEntry, exitSignal)
      [] OTHER -> "none"

\* the processor that runs at position pc of the bar
PassAt ==
    CASE pc = "pass1" -> FirstPass(signalPriority)
      [] pc = "pass2" -> SecondPass(signalPriority)
      [] pc = "pass3" -> ThirdPass(signalPriority, hasProcessedEntry, exitSignal)
      [] OTHER -> "none"

\* the position after the pass at pc, given hasProcessedEntry after it
AfterPass(entered) ==
    CASE pc = "pass1" -> "pass2"
      [] pc = "pass2" ->
            IF ThirdPass(signalPriority, entered, exitSignal) = "exit"
            THEN "pass3" ELSE "record"
      [] OTHER -> "record"


(***************************************************************************)
(* The state after construction, on entry to runSingleBacktest.            *)
(***************************************************************************)
\* a vector of n copies of v (std::vector::resize(n, v)), bar k at index k + 1
Filled(n, v) == [k \in 1..n |-> v]

\* a configuration: the constructor's parameters
Config(tt, size, fee, tp, sl, minH, maxH, slip, cap, force, mode) ==
    [tradeType |-> tt, eachTrade |-> size, tradeFees |-> fee, tpStop |-> tp,
     slStop |-> sl, minHolding |-> minH, maxHolding |-> maxH,
     slippagePct |-> slip, maxPositions |-> cap, forceCloseAtEnd |-> force,
     signalPriority |-> mode]

\* The configurations explored.  The full product of the parameter sets is
\* out of reach, so three families are explored, each the full product of
\* the parameters of one concern with the other parameters held fixed.
\* capacity, minimum holding period and signal priority
RuleConfigs ==
    {Config("LONG_SHORT", Rat(1, 2), Zero, Zero, Zero, minH, 0, Zero, cap,
            TRUE, mode) :
        minH \in 0..MaxHold, cap \in 0..MaxCap, mode \in SignalPriorityModes}
\* take-profit, stop-loss and slippage against the other exit rules, with the
\* longest minimum holding period
StopConfigs ==
    {Config("LONG_SHORT", Rat(1, 2), Zero, tp, sl, MaxHold, maxH, slip, 0,
            TRUE, mode) :
        tp \in TakeProfits, sl \in StopLosses, maxH \in {0, 1},
        slip \in Slippages, mode \in SignalPriorityModes}
\* direction, sizing, fees, slippage and the end-of-run flush
MoneyConfigs ==
    {Config(tt, size, fee, Zero, Zero, 0, 0, slip, 0, force, "EXIT_FIRST") :
        tt \in TradeTypes, size \in PositionSizes, fee \in Commissions,
        slip \in Slippages, force \in BOOLEAN}
Configs == RuleConfigs \cup StopConfigs \cup MoneyConfigs

\* the default-constructed BacktestMetrics.  Of its fields the model keeps
\* those computed with the four arithmetic operations; maxDrawdown,
\* annualizedReturn, the Sharpe, Sortino and Calmar ratios and the equity
\* curve are not represented.
DefaultMetrics ==
    [startValue |-> Zero, endValue |-> Zero, totalReturn |-> Zero,
     totalTrades |-> 0, winningTrades |-> 0, winRate |-> Zero,
     profitFactor |-> Zero]

\* no first call has completed
NoRun == [trades |-> <<>>, result |-> DefaultMetrics]

(***************************************************************************)
(* The constructors.  A std::string is the sequence of its characters.     *)
(***************************************************************************)
UpperCase == <<"A", "B", "C", "D", "E", "F", "G", "H", "I", "J", "K", "L", "M",
               "N", "O", "P", "Q", "R", "S", "T", "U", "V", "W", "X", "Y", "Z">>
LowerCase == <<"a", "b", "c", "d", "e", "f", "g", "h", "i", "j", "k", "l", "m",
               "n", "o", "p", "q", "r", "s", "t", "u", "v", "w", "x", "y", "z">>

\* ::tolower on one character
tolower(c) ==
    IF \E k \in 1..26 : UpperCase[k] = c
    THEN LowerCase[CHOOSE k \in 1..26 : UpperCase[k] = c]
    ELSE c

\* std::transform(begin, end, begin, ::tolower)
ToLowerString(str) == [k \in 1..Len(str) |-> tolower(str[k])]

\* the string literals of the parsers
long == <<"l", "o", "n", "g">>
short == <<"s", "h", "o", "r", "t">>
long_short == long \o <<"_">> \o short
entry_first == <<"e", "n", "t", "r", "y", "_", "f", "i", "r", "s", "t">>
same_bar_trade ==
    <<"s", "a", "m", "e", "_", "b", "a", "r", "_", "t", "r", "a", "d", "e">>

\* faulty variant of parseTradeType: the string is compared as given
parseTradeType_CaseSensitive(type) ==
    IF type = long THEN "LONG"
    ELSE IF type = short THEN "SHORT"
    ELSE IF type = long_short THEN "LONG_SHORT"
    ELSE "LONG"

parseTradeType(type) ==
    LET lowerType == ToLowerString(type)
    IN  IF lowerType = long THEN "LONG"
        ELSE IF lowerType = short THEN "SHORT"
        ELSE IF lowerType = long_short THEN "LONG_SHORT"
        ELSE "LONG"

parseSignalPriorityMode(mode) ==
    IF mode = entry_first THEN "ENTRY_FIRST"
    ELSE IF mode = same_bar_trade THEN "SAME_BAR_TRADE"
    ELSE "EXIT_FIRST"

\* strings a caller may pass: the ones the parsers know, in other cases too,
\* the ones the header documents, and others
only == <<"_", "o", "n", "l", "y">>
long_only == long \o only
short_only == short \o only
exit_first == <<"e", "x", "i", "t", "_", "f", "i", "r", "s", "t">>
TradeTypeStrings ==
    {long, short, long_short, <<"S", "h", "o", "r", "t">>, long_only,
     short_only, <<>>}
SignalPriorityStrings ==
    {exit_first, entry_first, same_bar_trade,
     <<"E", "n", "t", "r", "y", "_", "f", "i", "r", "s", "t">>,
     <<"l", "a", "s", "t">>}

\* the parameters the constructors copy into the members unchanged
CtorDefaults ==
    [positionSizePct |-> Rat(1, 2), commissionPct |-> Zero,
     takeProfitPct |-> Zero, stopLossPct |-> Zero, minHoldingPeriod |-> 0,
     maxHoldingPeriod |-> 0, slippagePct |-> Zero, maxPositionsParam |-> 0,
     forceCloseAtEnd |-> TRUE]

\* the names of the strategies, in the order of std::map<std::string, ...>
NameOrder == <<"a", "b">>
Names == {NameOrder[k] : k \in 1..Len(NameOrder)}

\* the maps name -> size of the signal vector, over some of the names
SizeMaps == UNION {[ns -> 0..MaxLenCtor] : ns \in SUBSET Names}

\* a call of the single-run constructor; a vector is given by its size (its
\* elements are drawn when the run reads them)
SingleArgs(np, ne, nx, nd, type, capital, mode) ==
    [kind |-> "single", prices |-> np, entrySignals |-> ne, exitSignals |-> nx,
     dates |-> nd, tradeType |-> type, initialCapital |-> capital,
     signalPriorityMode |-> mode, rest |-> CtorDefaults]

\* a call of the multi-run constructor
MultiArgs(np, es, xs, nd, type, capital, mode) ==
    [kind |-> "multi", prices |-> np, entrySignals |-> es, exitSignals |-> xs,
     dates |-> nd, tradeType |-> type, initialCapital |-> capital,
     signalPriorityMode |-> mode, rest |-> CtorDefaults]

\* The constructor calls explored: vectors of every size up to MaxLenCtor with
\* the default strings, every string and capital on vectors of equal size,
\* and every pair of maps.
CtorArgs ==
    {SingleArgs(np, ne, nx, nd, long_short, FromInt(1000), exit_first) :
        np \in 0..MaxLenCtor, ne \in 0..MaxLenCtor, nx \in 0..MaxLenCtor,
        nd \in 0..MaxLenCtor}
    \cup
    {SingleArgs(n, n, n, n, type, capital, mode) :
        n \in 0..MaxLenCtor, type \in TradeTypeStrings,
        capital \in {FromInt(1000), FromInt(-1000)},
        mode \in SignalPriorityStrings}
    \cup
    {MultiArgs(np, es, xs, nd, long_short, FromInt(1000), exit_first) :
        np \in 0..MaxLenCtor, es \in SizeMaps, xs \in SizeMaps,
        nd \in 0..MaxLenCtor}

\* no constructor call is represented
NoArgs == <<>>

\* an empty std::map
EmptyMap == [n \in {} |-> DefaultMetrics]

\* map[key] = value
Put(map, key, value) == (key :> value) @@ map

\* the keys of a map in iteration order
Keys(map) == SelectSeq(NameOrder, LAMBDA n : n \in DOMAIN map)

\* faulty variant of SizesDiffer: the dates are not compared
SizesDiffer_IgnoresDates(a) ==
    a.prices # a.entrySignals \/ a.prices # a.exitSignals

\* the size check of the single-run constructor
SizesDiffer(a) ==
    \/ a.prices # a.entrySignals
    \/ a.prices # a.exitSignals
    \/ a.prices # a.dates

RECURSIVE CheckLoop(_, _, _)
\* the checking loop of the multi-run constructor over the names of
\* entriesMap; acc = [threw, params]
CheckLoop(names, a, acc) ==
    IF names = <<>> THEN acc
    ELSE LET n == Head(names)
         IN  IF n \notin DOMAIN a.exitSignals
             THEN [acc EXCEPT !.threw = TRUE]
             ELSE IF \/ a.entrySignals[n] # a.prices
                     \/ a.exitSignals[n] # a.prices
                     \/ a.prices # a.dates
                  THEN [acc EXCEPT !.threw = TRUE]
                  ELSE CheckLoop(Tail(names), a,
                                 [acc EXCEPT !.params = Append(@, n)])

\* the members after the initialiser list and the body of a constructor
Members(a, multi, names) ==
    /\ tradeType' = parseTradeType(a.tradeType)
    /\ startFund' = a.initialCapital
    /\ eachTrade' = a.rest.positionSizePct
    /\ tradeFees' = a.rest.commissionPct
    /\ tpStop' = a.rest.takeProfitPct
    /\ slStop' = a.rest.stopLossPct
    /\ minHolding' = a.rest.minHoldingPeriod
    /\ maxHolding' = a.rest.maxHoldingPeriod
    /\ slippagePct' = a.rest.slippagePct
    /\ maxPositions' = a.rest.maxPositionsParam
    /\ forceCloseAtEnd' = a.rest.forceCloseAtEnd
    /\ signalPriority' = parseSignalPriorityMode(a.signalPriorityMode)
    /\ isMulti' = multi
    /\ params' = names
    /\ dataSize' = a.prices
    /\ availableCapital' = Filled(a.prices, a.initialCapital)
    /\ positionValue' = Filled(a.prices, Zero)
    /\ totalCapital' = Filled(a.prices, a.initialCapital)
    /\ dailyReturn' = Filled(a.prices, Zero)

\* what a constructor that throws leaves: no object
NoObject ==
    UNCHANGED <<tradeType, startFund, eachTrade, tradeFees, tpStop, slStop,
                minHolding, maxHolding, slippagePct, maxPositions,
                forceCloseAtEnd, signalPriority, isMulti, params, dataSize,
                seriesVars>>

\* what no constructor writes
CtorFrame ==
    UNCHANGED <<args, multiVars, wrapperVars, i, barVars, hasProcessedEntry, currentCapital,
                totalPositionValue, lastPrice, currentTrades, trades, m_trades,
                result, runVars, histVars, opened>>

\* Backtest::Backtest(prices, entrySignals, exitSignals, dates, ...)
ConstructSingle ==
    /\ pc = "new"
    /\ args.kind = "single"
    /\ IF SizesDiffer(args)
       THEN pc' = "threw" /\ NoObject
       ELSE pc' = "constructed" /\ Members(args, FALSE, <<>>)
    /\ CtorFrame

\* Backtest::Backtest(prices, entrySignals map, exitSignals map, dates, ...)
ConstructMulti ==
    /\ pc = "new"
    /\ args.kind = "multi"
    /\ LET r == CheckLoop(Keys(args.entrySignals), args,
                          [threw |-> FALSE, params |-> <<>>])
       IN  IF r.threw
           THEN pc' = "threw" /\ NoObject
           ELSE pc' = "constructed" /\ Members(args, TRUE, r.params)
    /\ CtorFrame

\* the object after construction on vectors of 1..bars elements, on entry to
\* runSingleBacktest
Constructed(bars) ==
    /\ \E c \in Configs :
          /\ tradeType = c.tradeType
          /\ eachTrade = c.eachTrade
          /\ tradeFees = c.tradeFees
          /\ tpStop = c.tpStop
          /\ slStop = c.slStop
          /\ minHolding = c.minHolding
          /\ maxHolding = c.maxHolding
          /\ slippagePct = c.slippagePct
          /\ maxPositions = c.maxPositions
          /\ forceCloseAtEnd = c.forceCloseAtEnd
          /\ signalPriority = c.signalPriority
    /\ args = NoArgs
    /\ startFund \in InitialCapitals
    /\ isMulti = FALSE
    /\ params = <<>>
    /\ dataSize \in 1..bars
    /\ param = 0
    /\ results = EmptyMap
    /\ refName = ""
    /\ last_backtest_trades = <<>>
    /\ last_backtest_prices = <<>>
    /\ last_backtest_dates = <<>>
    /\ account_details = <<>>
    /\ lastCall = <<>>
    /\ pc = "bar"
    /\ i = 0
    /\ price = Zero
    /\ entrySignal = 0
    /\ exitSignal = 0
    /\ hasProcessedEntry = FALSE
    /\ currentCapital = startFund
    /\ totalPositionValue = Zero
    /\ lastPrice = Zero
    /\ currentTrades = <<>>
    /\ trades = <<>>
    /\ availableCapital = Filled(dataSize, startFund)
    /\ positionValue = Filled(dataSize, Zero)
    /\ totalCapital = Filled(dataSize, startFund)
    /\ dailyReturn = Filled(dataSize, Zero)
    /\ m_trades = <<>>
    /\ result = DefaultMetrics
    /\ inputs = <<>>
    /\ firstRun = NoRun
    /\ barStartCapital = startFund
    /\ barStartOpenCount = 0
    /\ passLog = <<>>
    /\ opened = <<>>

\* run() is called once
Init == Constructed(MaxBars) /\ run = "only"

\* run() is called twice on the same object
InitTwice == Constructed(MaxBarsTwice) /\ run = "first"

(***************************************************************************)
(* The bar loop of runSingleBacktest.                                      *)
(***************************************************************************)
\* the price vector is the one an earlier run has read: a second call of
\* run(), a later strategy of a multi-run, the run of one strategy alone
PricesKnown ==
    run \in {"second", "reference"} \/ (isMulti /\ param > 1)

\* the signal vectors are the ones an earlier run has read
SignalsKnown == run \in {"second", "reference"}

\* the elements read so far, for the runs that will read them again; of a
\* multi-run the prices and the signals of the strategy refName
Recorded(p, e, x) ==
    IF run = "first"
    THEN Append(inputs, <<p, e, x>>)
    ELSE IF isMulti /\ param = 1
    THEN Append(inputs, IF params[param] = refName THEN <<p, e, x>>
                                                   ELSE <<p, 0, 0>>)
    ELSE IF isMulti /\ params[param] = refName
    THEN [inputs EXCEPT ![i + 1] = <<p, e, x>>]
    ELSE inputs

\* loop head: read prices[i], entries[i], exits[i] and mark to market
BeginBar ==
    /\ pc = "bar"
    /\ i < dataSize
    /\ \E p \in Prices, e \in Signals, x \in Signals :
          /\ PricesKnown => p = inputs[i + 1][1]
          /\ SignalsKnown => <<e, x>> = <<inputs[i + 1][2], inputs[i + 1][3]>>
          /\ inputs' = Recorded(p, e, x)
          /\ price' = p
          /\ entrySignal' = e
          /\ exitSignal' = x
          /\ currentTrades' = MarkToMarket(currentTrades, p)
    /\ lastPrice' = IF i = dataSize - 1 THEN price' ELSE lastPrice
    /\ totalPositionValue' = SumCurrentValue(currentTrades')
    /\ hasProcessedEntry' = FALSE
    /\ barStartCapital' = currentCapital
    /\ barStartOpenCount' = Len(currentTrades)
    /\ passLog' = <<>>
    /\ pc' = "pass1"
    /\ UNCHANGED <<cfgVars, multiVars, wrapperVars, i, currentCapital, trades, seriesVars, m_trades,
                   result, run, firstRun, opened>>

\* one call of processExitSignals
ExitPass ==
    /\ PassAt = "exit"
    /\ LET r == processExitSignals(currentTrades, trades, i, price, exitSignal,
                                   currentCapital)
       IN  /\ currentTrades' = r.open
           /\ trades' = r.trades
           /\ currentCapital' = r.capital
    /\ passLog' = Append(passLog, "exit")
    /\ pc' = AfterPass(hasProcessedEntry)
    /\ UNCHANGED <<cfgVars, multiVars, wrapperVars, i, barVars, hasProcessedEntry, totalPositionValue,
                   lastPrice, seriesVars, m_trades, result, runVars,
                   barStartCapital, barStartOpenCount, opened>>

\* one call of processEntrySignals
EntryPass ==
    /\ PassAt = "entry"
    /\ LET r == processEntrySignals(currentTrades, i, price, entrySignal,
                                    currentCapital)
       IN  /\ currentTrades' = r.open
           /\ currentCapital' = r.capital
           /\ hasProcessedEntry' = r.hasEntered
           /\ pc' = AfterPass(r.hasEntered)
           /\ opened' =
                 IF Len(r.open) > Len(currentTrades)
                 THEN Append(opened,
                             [bar |-> i, signal |-> entrySignal,
                              direction |-> r.open[Len(r.open)].direction])
                 ELSE opened
    /\ passLog' = Append(passLog, "entry")
    /\ UNCHANGED <<cfgVars, multiVars, wrapperVars, i, barVars, totalPositionValue, lastPrice, trades,
                   seriesVars, m_trades, result, runVars, barStartCapital,
                   barStartOpenCount>>

\* faulty variant of TotalCapitalOf: the position value is left out
TotalCapitalOf_NoPositions(capital, posValue) == capital

\* "totalCapital[..] = currentCapital + <position value>"
TotalCapitalOf(capital, posValue) == Add(capital, posValue)

\* dailyReturn[i], from totalCapital[i] and totalCapital[i-1]
DailyReturn(series, ret, bar) ==
    IF bar > 0 /\ Gt(series[bar], Zero)
    THEN Sub(Div(series[bar + 1], series[bar]), One)
    ELSE ret[bar + 1]

\* recompute the position value and write the equity series of bar i; the
\* locals of the loop body (and the bar's history) end with the iteration
Record ==
    /\ pc = "record"
    /\ totalPositionValue' = SumCurrentValue(currentTrades)
    /\ availableCapital' = [availableCapital EXCEPT ![i + 1] = currentCapital]
    /\ positionValue' = [positionValue EXCEPT ![i + 1] = totalPositionValue']
    /\ totalCapital' =
          [totalCapital EXCEPT
              ![i + 1] = TotalCapitalOf(currentCapital, totalPositionValue')]
    /\ dailyReturn' =
          [dailyReturn EXCEPT ![i + 1] = DailyReturn(totalCapital', dailyReturn, i)]
    /\ i' = i + 1
    /\ pc' = "bar"
    /\ price' = Zero
    /\ entrySignal' = 0
    /\ exitSignal' = 0
    /\ hasProcessedEntry' = FALSE
    /\ barStartCapital' = currentCapital
    /\ barStartOpenCount' = 0
    /\ passLog' = <<>>
    /\ UNCHANGED <<cfgVars, multiVars, wrapperVars, currentCapital, lastPrice, currentTrades, trades,
                   m_trades, result, runVars, opened>>

(***************************************************************************)
(* After the loop.                                                         *)
(***************************************************************************)
lastIndex == dataSize - 1

\* faulty variant of FlushTrade: the flush fills at the last price, without
\* slippage
FlushTrade_NoSlippage(t) ==
    LET isLong == t.direction = "long"
        exitPrice ==
            lastPrice
        buybackCost == Mul(t.quantity, exitPrice)
        totalExitCost == Add(buybackCost, Mul(buybackCost, tradeFees))
        profit ==
            IF isLong
            THEN Sub(Mul(Mul(t.quantity, exitPrice), Sub(One, tradeFees)),
                     t.entryInvestment)
            ELSE Sub(t.entryInvestment, totalExitCost)
        exitValue ==
            IF isLong
            THEN Mul(Mul(t.quantity, exitPrice), Sub(One, tradeFees))
            ELSE Add(t.entryInvestment, profit)
    IN  [t EXCEPT !.exitPrice = exitPrice,
                  !.exitIndex = lastIndex,
                  !.exitFee = Mul(Mul(t.quantity, exitPrice), tradeFees),
                  !.exitValue = exitValue,
                  !.profit = profit,
                  !.profitPct = Mul(Div(profit, t.entryInvestment), Hundred),
                  !.exitReason = EndOfBacktestReason]

\* the body of the flush loop for one open position: the trade object after
\* its exit fields are written
FlushTrade(t) ==
    LET isLong == t.direction = "long"
        exitPrice ==
            IF Gt(slippagePct, Zero)
            THEN IF isLong
                 THEN Mul(lastPrice, Sub(One, slippagePct))
                 ELSE Mul(lastPrice, Add(One, slippagePct))
            ELSE lastPrice
        buybackCost == Mul(t.quantity, exitPrice)
        totalExitCost == Add(buybackCost, Mul(buybackCost, tradeFees))
        profit ==
            IF isLong
            THEN Sub(Mul(Mul(t.quantity, exitPrice), Sub(One, tradeFees)),
                     t.entryInvestment)
            ELSE Sub(t.entryInvestment, totalExitCost)
        exitValue ==
            IF isLong
            THEN Mul(Mul(t.quantity, exitPrice), Sub(One, tradeFees))
            ELSE Add(t.entryInvestment, profit)
    IN  [t EXCEPT !.exitPrice = exitPrice,
                  !.exitIndex = lastIndex,
                  !.exitFee = Mul(Mul(t.quantity, exitPrice), tradeFees),
                  !.exitValue = exitValue,
                  !.profit = profit,
                  !.profitPct = Mul(Div(profit, t.entryInvestment), Hundred),
                  !.exitReason = EndOfBacktestReason]

RECURSIVE FlushLoop(_, _)
\* the for loop of the end-of-run flush; acc = [trades, capital]
FlushLoop(rest, acc) ==
    IF rest = <<>> THEN acc
    ELSE LET closed == FlushTrade(Head(rest))
         IN  FlushLoop(Tail(rest),
                       [trades |-> Append(acc.trades, closed),
                        capital |-> Add(acc.capital, closed.exitValue)])

\* the open set after the flush: each trade object updated in place, none erased
Flushed(open) ==
    [k \in 1..Len(open) |-> FlushTrade(open[k])]

\* what a read outside a vector's storage yields, when it yields a value
Indeterminate == <<0, 0>>

\* "lastPrice = seriesData.prices[lastIndex]": the outcomes of the read.  On
\* an empty vector lastIndex wraps to the largest size_t and the read is
\* outside the storage: the run is killed, or goes on with whatever was read.
ReadLastPrice ==
    IF dataSize > 0
    THEN {[pc |-> "final", value |-> lastPrice]}
    ELSE {[pc |-> "crashed", value |-> lastPrice],
          [pc |-> "final", value |-> Indeterminate]}

\* loop exit, the read of the last price and "if (forceCloseAtEnd)": close
\* every still-open position
ForceClose ==
    /\ pc = "bar"
    /\ i >= dataSize
    /\ \E read \in ReadLastPrice :
          /\ lastPrice' = read.value
          /\ pc' = read.pc
          /\ IF forceCloseAtEnd /\ read.pc = "final"
             THEN LET r == FlushLoop(currentTrades,
                                     [trades |-> trades,
                                      capital |-> currentCapital])
                  IN  /\ trades' = r.trades
                      /\ currentCapital' = r.capital
                      /\ currentTrades' = Flushed(currentTrades)
             ELSE UNCHANGED <<trades, currentCapital, currentTrades>>
    /\ UNCHANGED <<cfgVars, multiVars, wrapperVars, i, barVars, hasProcessedEntry,
                   totalPositionValue, seriesVars, m_trades, result, runVars,
                   histVars, opened>>

\* faulty variant of FinalPositionValue: positions left open are not valued
FinalPositionValue_AlwaysZero(open) == Zero

\* faulty variant of FinalPositionValue: the flushed positions are still valued
FinalPositionValue_KeepsValue(open) == SumCurrentValue(open)

\* finalPositionValue of "update the final capital state"
FinalPositionValue(open) ==
    IF forceCloseAtEnd THEN Zero ELSE SumCurrentValue(open)

\* "if (!currentTrades.empty())": overwrite the last bar of the series
FinalUpdate ==
    /\ pc = "final"
    /\ IF currentTrades # <<>>
       THEN LET v == FinalPositionValue(currentTrades)
            IN  /\ availableCapital' =
                      [availableCapital EXCEPT ![lastIndex + 1] = currentCapital]
                /\ positionValue' = [positionValue EXCEPT ![lastIndex + 1] = v]
                /\ totalCapital' =
                      [totalCapital EXCEPT
                          ![lastIndex + 1] = TotalCapitalOf(currentCapital, v)]
       ELSE UNCHANGED <<availableCapital, positionValue, totalCapital>>
    /\ pc' = "finish"
    /\ UNCHANGED <<cfgVars, multiVars, wrapperVars, i, barVars, hasProcessedEntry, currentCapital,
                   totalPositionValue, lastPrice, currentTrades, trades,
                   dailyReturn, m_trades, result, runVars, histVars, opened>>

RECURSIVE ProfitLoop(_, _)
\* the loop of calculateMetrics over the ledger;
\* acc = [winningTrades, totalProfit, totalLoss]
ProfitLoop(rest, acc) ==
    IF rest = <<>> THEN acc
    ELSE LET t == Head(rest)
         IN  IF Gt(t.profit, Zero)
             THEN ProfitLoop(Tail(rest),
                             [acc EXCEPT !.winningTrades = @ + 1,
                                         !.totalProfit = Add(@, t.profit)])
             ELSE ProfitLoop(Tail(rest),
                             [acc EXCEPT !.totalLoss = Sub(@, t.profit)])

\* calculateMetrics: the default metrics for an empty equity series
calculateMetrics(series, ts) ==
    LET endValue == series[Len(series)]
        sums == ProfitLoop(ts, [winningTrades |-> 0, totalProfit |-> Zero,
                                totalLoss |-> Zero])
    IN  IF series = <<>> THEN DefaultMetrics ELSE
        [startValue |-> startFund,
         endValue |-> endValue,
         totalReturn |-> Mul(Sub(Div(endValue, startFund), One), Hundred),
         totalTrades |-> Len(ts),
         winningTrades |-> sums.winningTrades,
         winRate |->
            IF Len(ts) > 0
            THEN Mul(Div(FromInt(sums.winningTrades), FromInt(Len(ts))),
                     Hundred)
            ELSE Zero,
         profitFactor |->
            IF Gt(sums.totalLoss, Zero)
            THEN Div(sums.totalProfit, sums.totalLoss)
            ELSE Zero]

(***************************************************************************)
(* The ratio-style metrics of calculateMetrics that are not part of        *)
(* "result" above.  A double is an exact rational, or one of the two       *)
(* non-finite outcomes of a division by zero, written 0/0 and 1/0.         *)
(***************************************************************************)
NaN == <<0, 0>>
Infinity == <<1, 0>>
IsFinite(x) == x \notin {NaN, Infinity}

\* the double x / y: 0/0 is NaN and x/0 for x > 0 is +Inf
Quotient(x, y) ==
    IF y # Zero THEN Div(x, y)
    ELSE IF x = Zero THEN NaN ELSE Infinity

\* std::max(a, b) = (a < b) ? b : a; every comparison with NaN is false
StdMax(a, b) ==
    IF b = NaN \/ a = Infinity THEN a
    ELSE IF b = Infinity THEN b
    ELSE IF Lt(a, b) THEN b ELSE a

RECURSIVE DrawdownLoop(_, _, _)
\* the loop of calculateMaxDrawdown from index k (1-based k + 1);
\* acc = [peak, maxDrawdown, zeroPeak], zeroPeak recording a division by a
\* peak of zero.  A negative peak gives a finite quotient
DrawdownLoop(equityCurve, k, acc) ==
    IF k >= Len(equityCurve) THEN acc
    ELSE LET e == equityCurve[k + 1]
             q == Quotient(Sub(acc.peak, e), acc.peak)
             drawdown == IF IsFinite(q) THEN Mul(q, Hundred) ELSE q
         IN  IF Gt(e, acc.peak)
             THEN DrawdownLoop(equityCurve, k + 1, [acc EXCEPT !.peak = e])
             ELSE DrawdownLoop(equityCurve, k + 1,
                     [acc EXCEPT
                         !.maxDrawdown = StdMax(@, drawdown),
                         !.zeroPeak = @ \/ acc.peak = Zero])

\* the drawdown loop started at "peak = equityCurve[0]" (the series is not
\* empty where calculateMetrics calls it)
DrawdownOf(equityCurve) ==
    DrawdownLoop(equityCurve, 1,
                 [peak |-> equityCurve[1], maxDrawdown |-> Zero,
                  zeroPeak |-> FALSE])

calculateMaxDrawdown(equityCurve) == DrawdownOf(equityCurve).maxDrawdown

\* "x <= std::numeric_limits<double>::epsilon()", epsilon being 2^-52
LeEpsilon(x) ==
    x[1] <= 0 \/ ((x[2] \div x[1]) \div 2^26) >= 2^26

RECURSIVE SumOf(_)
\* std::accumulate(begin, end, 0.0)
SumOf(rs) == IF rs = <<>> THEN Zero ELSE Add(Head(rs), SumOf(Tail(rs)))

RECURSIVE DownsideLoop(_, _)
\* the loop over the returns below zero;
\* acc = [sumSquaredDownside, downsideCount]
DownsideLoop(rs, acc) ==
    IF rs = <<>> THEN acc
    ELSE LET r == Head(rs)
         IN  IF Lt(r, Zero)
             THEN DownsideLoop(Tail(rs),
                     [sumSquaredDownside |->
                          Add(acc.sumSquaredDownside, Mul(r, r)),
                      downsideCount |-> acc.downsideCount + 1])
             ELSE DownsideLoop(Tail(rs), acc)

\* calculateSortinoRatio with the risk-free rate 0 that calculateMetrics
\* passes (so the excess returns are the returns; the model's returns are
\* never NaN).  Past its early returns the ratio is
\* mean / sqrt(radicand) * sqrt(periodsPerYear), kept as its two operands
calculateSortinoRatio(returns) ==
    LET meanExcessReturn == Div(SumOf(returns), FromInt(Len(returns)))
        down == DownsideLoop(returns, [sumSquaredDownside |-> Zero,
                                       downsideCount |-> 0])
    IN  IF returns = <<>> THEN Zero
        ELSE IF down.downsideCount = 0 \/ LeEpsilon(down.sumSquaredDownside)
        THEN IF Gt(meanExcessReturn, Zero) THEN Hundred ELSE Zero
        ELSE [mean |-> meanExcessReturn,
              radicand |-> Div(down.sumSquaredDownside,
                               FromInt(down.downsideCount))]

\* faulty variant of Finish: the ledger of the run is appended to the one the
\* object already holds
Finish_AppendsLedger ==
    /\ pc = "finish"
    /\ m_trades' = m_trades \o trades
    /\ LET metrics == calculateMetrics(totalCapital, trades)
       IN  IF isMulti
           THEN /\ results' = Put(results, params[param], metrics)
                /\ result' = result
           ELSE /\ result' = metrics
                /\ results' = results
    /\ currentTrades' = <<>>
    /\ pc' = IF isMulti /\ param < Len(params) THEN "next" ELSE "done"
    /\ UNCHANGED <<cfgVars, param, refName, wrapperVars, i, barVars, hasProcessedEntry,
                   currentCapital, totalPositionValue, lastPrice, trades,
                   seriesVars, runVars, histVars, opened>>

\* "m_trades = trades", return calculateMetrics(...) and "result = ..." in
\* runBacktest: the locals, the open set among them, end
Finish ==
    /\ pc = "finish"
    /\ m_trades' = trades
    /\ LET metrics == calculateMetrics(totalCapital, trades)
       IN  IF isMulti
           THEN /\ results' = Put(results, params[param], metrics)
                /\ result' = result
           ELSE /\ result' = metrics
                /\ results' = results
    /\ currentTrades' = <<>>
    /\ pc' = IF isMulti /\ param < Len(params) THEN "next" ELSE "done"
    /\ UNCHANGED <<cfgVars, param, refName, wrapperVars, i, barVars, hasProcessedEntry, currentCapital,
                   totalPositionValue, lastPrice, trades, seriesVars, runVars,
                   histVars, opened>>

Next ==
    \/ BeginBar
    \/ ExitPass
    \/ EntryPass
    \/ Record
    \/ ForceClose
    \/ FinalUpdate
    \/ Finish

Spec == Init /\ [][Next]_vars

(***************************************************************************)
(* run() called a second time on the same object.                          *)
(***************************************************************************)
\* faulty variant of RunAgain: the capital and the ledger of the earlier call
\* are carried into the new one
RunAgain_KeepsState ==
    /\ pc = "done"
    /\ run = "first"
    /\ run' = "second"
    /\ firstRun' = [trades |-> m_trades, result |-> result]
    /\ pc' = "bar"
    /\ i' = 0
    /\ totalPositionValue' = Zero
    /\ availableCapital' = Filled(dataSize, startFund)
    /\ positionValue' = Filled(dataSize, Zero)
    /\ totalCapital' = Filled(dataSize, startFund)
    /\ dailyReturn' = Filled(dataSize, Zero)
    /\ barStartCapital' = currentCapital
    /\ opened' = <<>>
    /\ UNCHANGED <<cfgVars, multiVars, wrapperVars, barVars, hasProcessedEntry, currentCapital,
                   lastPrice, currentTrades, trades, m_trades, result, inputs,
                   barStartOpenCount, passLog>>

\* run() -> runBacktest() -> runSingleBacktest(data.entries, data.exits) once
\* more: fresh locals, seriesData copied from the member data (which no call
\* writes), the members m_trades and result as the first call left them
RunAgain ==
    /\ pc = "done"
    /\ run = "first"
    /\ run' = "second"
    /\ firstRun' = [trades |-> m_trades, result |-> result]
    /\ pc' = "bar"
    /\ i' = 0
    /\ trades' = <<>>
    /\ currentTrades' = <<>>
    /\ currentCapital' = startFund
    /\ totalPositionValue' = Zero
    /\ lastPrice' = Zero
    /\ availableCapital' = Filled(dataSize, startFund)
    /\ positionValue' = Filled(dataSize, Zero)
    /\ totalCapital' = Filled(dataSize, startFund)
    /\ dailyReturn' = Filled(dataSize, Zero)
    /\ barStartCapital' = startFund
    /\ opened' = <<>>
    /\ UNCHANGED <<cfgVars, multiVars, wrapperVars, barVars, hasProcessedEntry, m_trades, result,
                   inputs, barStartOpenCount, passLog>>

NextTwice == Next \/ RunAgain

SpecTwice == InitTwice /\ [][NextTwice]_vars

(***************************************************************************)
(* Construction followed by run().                                         *)
(***************************************************************************)
\* before the constructor is called: no object yet
InitCtor ==
    /\ args \in CtorArgs
    /\ pc = "new"
    /\ tradeType = "LONG"
    /\ startFund = Zero
    /\ eachTrade = Zero
    /\ tradeFees = Zero
    /\ tpStop = Zero
    /\ slStop = Zero
    /\ minHolding = 0
    /\ maxHolding = 0
    /\ slippagePct = Zero
    /\ maxPositions = 0
    /\ forceCloseAtEnd = FALSE
    /\ signalPriority = "EXIT_FIRST"
    /\ isMulti = FALSE
    /\ params = <<>>
    /\ dataSize = 0
    /\ param = 0
    /\ results = EmptyMap
    /\ refName = ""
    /\ last_backtest_trades = <<>>
    /\ last_backtest_prices = <<>>
    /\ last_backtest_dates = <<>>
    /\ account_details = <<>>
    /\ lastCall = <<>>
    /\ i = 0
    /\ price = Zero
    /\ entrySignal = 0
    /\ exitSignal = 0
    /\ hasProcessedEntry = FALSE
    /\ currentCapital = Zero
    /\ totalPositionValue = Zero
    /\ lastPrice = Zero
    /\ currentTrades = <<>>
    /\ trades = <<>>
    /\ availableCapital = <<>>
    /\ positionValue = <<>>
    /\ totalCapital = <<>>
    /\ dailyReturn = <<>>
    /\ m_trades = <<>>
    /\ result = DefaultMetrics
    /\ run = "only"
    /\ inputs = <<>>
    /\ firstRun = NoRun
    /\ barStartCapital = Zero
    /\ barStartOpenCount = 0
    /\ passLog = <<>>
    /\ opened = <<>>

\* entry to runSingleBacktest: fresh locals, seriesData copied from the member
\* data, which no call writes
EnterSingleBacktest ==
    /\ pc' = "bar"
    /\ i' = 0
    /\ trades' = <<>>
    /\ currentTrades' = <<>>
    /\ currentCapital' = startFund
    /\ totalPositionValue' = Zero
    /\ lastPrice' = Zero
    /\ availableCapital' = Filled(dataSize, startFund)
    /\ positionValue' = Filled(dataSize, Zero)
    /\ totalCapital' = Filled(dataSize, startFund)
    /\ dailyReturn' = Filled(dataSize, Zero)
    /\ barStartCapital' = startFund
    /\ opened' = <<>>

\* run() -> runBacktest(): the single run, or the first strategy of a
\* multi-run; with no strategy the loop body never runs
Run ==
    /\ pc = "constructed"
    /\ IF isMulti /\ params = <<>>
       THEN /\ pc' = "done"
            /\ param' = param
            /\ UNCHANGED <<i, trades, currentTrades, currentCapital,
                           totalPositionValue, lastPrice, seriesVars,
                           barStartCapital, opened>>
       ELSE /\ EnterSingleBacktest
            /\ param' = IF isMulti THEN 1 ELSE param
    /\ UNCHANGED <<cfgVars, results, refName, wrapperVars, barVars, hasProcessedEntry,
                   m_trades, result, runVars, barStartOpenCount, passLog>>

\* faulty variant of NextStrategy: the capital of the earlier strategy is
\* carried into the next one
NextStrategy_SharedCapital ==
    /\ pc = "next"
    /\ param' = param + 1
    /\ pc' = "bar"
    /\ i' = 0
    /\ trades' = <<>>
    /\ currentTrades' = <<>>
    /\ currentCapital' = currentCapital
    /\ totalPositionValue' = Zero
    /\ lastPrice' = Zero
    /\ availableCapital' = Filled(dataSize, startFund)
    /\ positionValue' = Filled(dataSize, Zero)
    /\ totalCapital' = Filled(dataSize, startFund)
    /\ dailyReturn' = Filled(dataSize, Zero)
    /\ barStartCapital' = currentCapital
    /\ opened' = <<>>
    /\ UNCHANGED <<cfgVars, results, refName, wrapperVars, barVars, hasProcessedEntry,
                   m_trades, result, runVars, barStartOpenCount, passLog>>

\* the next iteration of "for (const auto& param : params)"
NextStrategy ==
    /\ pc = "next"
    /\ param' = param + 1
    /\ EnterSingleBacktest
    /\ UNCHANGED <<cfgVars, results, refName, wrapperVars, barVars, hasProcessedEntry,
                   m_trades, result, runVars, barStartOpenCount, passLog>>

NextCtor ==
    \/ ConstructSingle
    \/ ConstructMulti
    \/ Run
    \/ NextStrategy
    \/ Next

SpecCtor == InitCtor /\ [][NextCtor]_vars

(***************************************************************************)
(* A multi-run, followed by a single run of one of its strategies.         *)
(***************************************************************************)
\* the optional parameters explored in a multi-run
MultiRests ==
    {[CtorDefaults EXCEPT !.positionSizePct = size, !.commissionPct = fee,
                          !.forceCloseAtEnd = force] :
        size \in PositionSizes, fee \in Commissions, force \in BOOLEAN}

\* the calls of the multi-run constructor explored: one or two strategies on
\* vectors of equal size
MultiRunArgs ==
    {[MultiArgs(n, [name \in ns |-> n], [name \in ns |-> n], n, long_short,
                FromInt(1000), exit_first) EXCEPT !.rest = rest] :
        n \in 1..MaxBarsMulti, ns \in {{"a"}, {"a", "b"}}, rest \in MultiRests}

\* before the multi-run constructor is called; refName is the strategy that
\* will afterwards be run alone
InitMulti ==
    /\ args \in MultiRunArgs
    /\ refName \in DOMAIN args.entrySignals
    /\ last_backtest_trades = <<>>
    /\ last_backtest_prices = <<>>
    /\ last_backtest_dates = <<>>
    /\ account_details = <<>>
    /\ lastCall = <<>>
    /\ pc = "new"
    /\ tradeType = "LONG"
    /\ startFund = Zero
    /\ eachTrade = Zero
    /\ tradeFees = Zero
    /\ tpStop = Zero
    /\ slStop = Zero
    /\ minHolding = 0
    /\ maxHolding = 0
    /\ slippagePct = Zero
    /\ maxPositions = 0
    /\ forceCloseAtEnd = FALSE
    /\ signalPriority = "EXIT_FIRST"
    /\ isMulti = FALSE
    /\ params = <<>>
    /\ dataSize = 0
    /\ param = 0
    /\ results = EmptyMap
    /\ i = 0
    /\ price = Zero
    /\ entrySignal = 0
    /\ exitSignal = 0
    /\ hasProcessedEntry = FALSE
    /\ currentCapital = Zero
    /\ totalPositionValue = Zero
    /\ lastPrice = Zero
    /\ currentTrades = <<>>
    /\ trades = <<>>
    /\ availableCapital = <<>>
    /\ positionValue = <<>>
    /\ totalCapital = <<>>
    /\ dailyReturn = <<>>
    /\ m_trades = <<>>
    /\ result = DefaultMetrics
    /\ run = "only"
    /\ inputs = <<>>
    /\ firstRun = NoRun
    /\ barStartCapital = Zero
    /\ barStartOpenCount = 0
    /\ passLog = <<>>
    /\ opened = <<>>

\* After the multi-run: a second object, built by the single-run constructor
\* from the same prices, dates and parameters and the (entries, exits) pair of
\* refName, and run() on it.  firstRun keeps what the multi-run object
\* answers: getTrades() and the metrics stored under refName
Reference ==
    /\ pc = "done"
    /\ isMulti
    /\ run = "only"
    /\ run' = "reference"
    /\ firstRun' = [trades |-> m_trades, result |-> results[refName]]
    /\ isMulti' = FALSE
    /\ params' = <<>>
    /\ param' = 0
    /\ m_trades' = <<>>
    /\ result' = DefaultMetrics
    /\ EnterSingleBacktest
    /\ UNCHANGED <<args, tradeType, startFund, eachTrade, tradeFees, tpStop,
                   slStop, minHolding, maxHolding, slippagePct, maxPositions,
                   forceCloseAtEnd, signalPriority, dataSize, results,
                   refName, wrapperVars, barVars, hasProcessedEntry, inputs,
                   barStartOpenCount, passLog>>

NextMulti ==
    \/ ConstructMulti
    \/ Run
    \/ NextStrategy
    \/ Reference
    \/ Next

SpecMulti == InitMulti /\ [][NextMulti]_vars



(***************************************************************************)
(* The code's double arithmetic itself: IEEE 754 binary64, round to        *)
(* nearest, ties to even (overflow and subnormals left out).  A natural    *)
(* number is the sequence of its bits, most significant first; a double is *)
(* sign * mant * 2^exp with mant of DBL_MANT_DIG bits, the first one set.  *)
(***************************************************************************)
DBL_MANT_DIG == 53

RECURSIVE Bits(_)
Bits(n) == IF n = 0 THEN <<>> ELSE Append(Bits(n \div 2), n % 2)

\* without leading zeros
Strip(b) ==
    IF \A k \in 1..Len(b) : b[k] = 0 THEN <<>>
    ELSE SubSeq(b, CHOOSE k \in 1..Len(b) :
                       b[k] = 1 /\ \A j \in 1..(k - 1) : b[j] = 0,
                Len(b))

\* without trailing zeros
StripRight(b) ==
    IF \A k \in 1..Len(b) : b[k] = 0 THEN <<>>
    ELSE SubSeq(b, 1, CHOOSE k \in 1..Len(b) :
                          b[k] = 1 /\ \A j \in (k + 1)..Len(b) : b[j] = 0)

Zeros(n) == [k \in 1..n |-> 0]

\* b on n bits
Pad(b, n) == Zeros(n - Len(b)) \o b

LessBits(a, b) ==
    \/ Len(a) < Len(b)
    \/ /\ Len(a) = Len(b)
       /\ \E k \in 1..Len(a) :
             /\ a[k] < b[k]
             /\ \A j \in 1..(k - 1) : a[j] = b[j]

\* the carry into bit k of a + b (k = 0: out of the first bit), a and b of
\* the same length: some lower bit generates it and the bits between pass it
Carry(a, b, k) ==
    \E j \in (k + 1)..Len(a) :
        /\ a[j] + b[j] = 2
        /\ \A m \in (k + 1)..(j - 1) : a[m] + b[m] = 1

PlusBits(a, b) ==
    LET n == IF Len(a) > Len(b) THEN Len(a) ELSE Len(b)
        x == Pad(a, n)
        y == Pad(b, n)
    IN  Strip([k \in 1..(n + 1) |->
                  IF k = 1 THEN (IF Carry(x, y, 0) THEN 1 ELSE 0)
                  ELSE (x[k - 1] + y[k - 1]
                        + (IF Carry(x, y, k - 1) THEN 1 ELSE 0)) % 2])

\* the borrow from bit k of a - b
Borrow(a, b, k) ==
    \E j \in (k + 1)..Len(a) :
        /\ a[j] < b[j]
        /\ \A m \in (k + 1)..(j - 1) : a[m] = b[m]

\* a - b, for a >= b
MinusBits(a, b) ==
    LET y == Pad(b, Len(a))
    IN  Strip([k \in 1..Len(a) |->
                  (a[k] + y[k] + (IF Borrow(a, y, k) THEN 1 ELSE 0)) % 2])

RECURSIVE TimesLoop(_, _, _, _)
\* shift and add over the bits of b
TimesLoop(a, b, k, acc) ==
    IF k > Len(b) THEN acc
    ELSE LET next == PlusBits(Strip(Append(acc, 0)),
                              IF b[k] = 1 THEN a ELSE <<>>)
         IN  IF Len(next) >= 0 THEN TimesLoop(a, b, k + 1, next) ELSE <<>>

TimesBits(a, b) ==
    LET odd == StripRight(b)
        product == TimesLoop(a, odd, 1, <<>>)
    IN  IF product = <<>> THEN <<>>
        ELSE product \o Zeros(Len(b) - Len(odd))

RECURSIVE DivLoop(_, _, _, _, _)
\* long division from bit k of n on; the result is [quot, rem]
DivLoop(n, d, k, rem, acc) ==
    IF k > Len(n) THEN [quot |-> Strip(acc), rem |-> rem]
    ELSE LET r == Strip(Append(rem, n[k]))
         IN  IF LessBits(r, d)
             THEN DivLoop(n, d, k + 1, r, Append(acc, 0))
             ELSE DivLoop(n, d, k + 1, MinusBits(r, d), Append(acc, 1))

\* n / d for d without leading zeros: the first Len(d) - 1 bits of n are
\* below d, so the quotient starts at bit Len(d)
DivBits(n, d) ==
    IF Len(n) < Len(d) THEN [quot |-> <<>>, rem |-> Strip(n)]
    ELSE DivLoop(n, d, Len(d), Strip(SubSeq(n, 1, Len(d) - 1)), <<>>)

DoubleZero == [sign |-> 0, mant |-> <<>>, exp |-> 0]

\* the double nearest to sign * (b + f) * 2^exp, where 0 <= f < 1 and sticky
\* tells whether f > 0
Round(sign, b, sticky, exp) ==
    IF b = <<>> THEN DoubleZero
    ELSE IF Len(b) <= DBL_MANT_DIG
    THEN [sign |-> sign, mant |-> b \o Zeros(DBL_MANT_DIG - Len(b)),
          exp |-> exp - (DBL_MANT_DIG - Len(b))]
    ELSE LET head == SubSeq(b, 1, DBL_MANT_DIG)
             guard == b[DBL_MANT_DIG + 1]
             rest == sticky \/ \E k \in (DBL_MANT_DIG + 2)..Len(b) : b[k] = 1
             up == guard = 1 /\ (rest \/ head[DBL_MANT_DIG] = 1)
             m == IF up THEN PlusBits(head, <<1>>) ELSE head
             shift == Len(b) - DBL_MANT_DIG
         IN  IF Len(m) > DBL_MANT_DIG
             THEN [sign |-> sign, mant |-> SubSeq(m, 1, DBL_MANT_DIG),
                   exp |-> exp + shift + 1]
             ELSE [sign |-> sign, mant |-> m, exp |-> exp + shift]

\* the double of an integer below 2^DBL_MANT_DIG
DoubleFromInt(n) ==
    IF n = 0 THEN DoubleZero
    ELSE Round(IF n < 0 THEN -1 ELSE 1, Bits(Abs(n)), FALSE, 0)

DoubleNeg(x) == [x EXCEPT !.sign = -@]

DoubleTimes(x, y) ==
    IF x.sign = 0 \/ y.sign = 0 THEN DoubleZero
    ELSE Round(x.sign * y.sign, TimesBits(x.mant, y.mant), FALSE,
               x.exp + y.exp)

\* x / y for y # 0
DoubleDiv(x, y) ==
    IF x.sign = 0 THEN DoubleZero
    ELSE LET r == DivBits(x.mant \o Zeros(DBL_MANT_DIG + 2), y.mant)
         IN  Round(x.sign * y.sign, r.quot, r.rem # <<>>,
                   x.exp - y.exp - (DBL_MANT_DIG + 2))

DoubleAdd(x, y) ==
    IF x.sign = 0 THEN y
    ELSE IF y.sign = 0 THEN x
    ELSE LET e == IF x.exp < y.exp THEN x.exp ELSE y.exp
             a == x.mant \o Zeros(x.exp - e)
             b == y.mant \o Zeros(y.exp - e)
         IN  IF x.sign = y.sign
             THEN Round(x.sign, PlusBits(a, b), FALSE, e)
             ELSE IF LessBits(a, b)
             THEN Round(y.sign, MinusBits(b, a), FALSE, e)
             ELSE Round(x.sign, MinusBits(a, b), FALSE, e)

DoubleSub(x, y) == DoubleAdd(x, DoubleNeg(y))

\* x > 0.0
DoublePositive(x) == x.sign = 1

(***************************************************************************)
(* One round trip - processEntrySignals on bar 0, processExitSignals on    *)
(* bar 1 - computed in double arithmetic, without commission or slippage.  *)
(* The variables hold doubles here.                                        *)
(***************************************************************************)
\* the bar prices explored: the integers 1..MaxPriceDouble
DoublePrices == {DoubleFromInt(n) : n \in 1..MaxPriceDouble}

DoubleOne == DoubleFromInt(1)

InitDouble ==
    /\ args = NoArgs
    /\ tradeType = "LONG_SHORT"
    /\ startFund = DoubleFromInt(1000)
    /\ eachTrade \in {DoubleOne, DoubleDiv(DoubleOne, DoubleFromInt(2))}
    /\ tradeFees = DoubleZero
    /\ tpStop = DoubleZero
    /\ slStop = DoubleZero
    /\ minHolding = 1
    /\ maxHolding = 0
    /\ slippagePct = DoubleZero
    /\ maxPositions = 0
    /\ forceCloseAtEnd = TRUE
    /\ signalPriority = "EXIT_FIRST"
    /\ isMulti = FALSE
    /\ params = <<>>
    /\ dataSize = 2
    /\ param = 0
    /\ results = EmptyMap
    /\ refName = ""
    /\ last_backtest_trades = <<>>
    /\ last_backtest_prices = <<>>
    /\ last_backtest_dates = <<>>
    /\ account_details = <<>>
    /\ lastCall = <<>>
    /\ pc = "double_entry"
    /\ i = 0
    /\ price = DoubleZero
    /\ entrySignal = 0
    /\ exitSignal = 0
    /\ hasProcessedEntry = FALSE
    /\ currentCapital = startFund
    /\ totalPositionValue = DoubleZero
    /\ lastPrice = DoubleZero
    /\ currentTrades = <<>>
    /\ trades = <<>>
    /\ availableCapital = Filled(dataSize, startFund)
    /\ positionValue = Filled(dataSize, DoubleZero)
    /\ totalCapital = Filled(dataSize, startFund)
    /\ dailyReturn = Filled(dataSize, DoubleZero)
    /\ m_trades = <<>>
    /\ result = DefaultMetrics
    /\ run = "only"
    /\ inputs = <<>>
    /\ firstRun = NoRun
    /\ barStartCapital = startFund
    /\ barStartOpenCount = 0
    /\ passLog = <<>>
    /\ opened = <<>>

\* what neither processor writes
DoubleFrame ==
    UNCHANGED <<cfgVars, multiVars, wrapperVars, hasProcessedEntry, totalPositionValue,
                lastPrice, seriesVars, m_trades, result, runVars, histVars,
                opened>>

\* processEntrySignals on bar 0, on an entry signal of either direction
EntryDouble ==
    /\ pc = "double_entry"
    /\ \E p \in DoublePrices, sig \in {1, -1} :
          LET isLong == sig = 1
              tradeAmount == DoubleTimes(currentCapital, eachTrade)
              entryPrice ==
                  IF DoublePositive(slippagePct)
                  THEN IF isLong
                       THEN DoubleTimes(p, DoubleAdd(DoubleOne, slippagePct))
                       ELSE DoubleTimes(p, DoubleSub(DoubleOne, slippagePct))
                  ELSE p
              entryFee == DoubleTimes(tradeAmount, tradeFees)
              actualInvestment == DoubleSub(tradeAmount, entryFee)
              quantity == DoubleDiv(actualInvestment, entryPrice)
          IN  /\ DoublePositive(tradeAmount)
              /\ price' = p
              /\ entrySignal' = sig
              /\ currentTrades' =
                    <<[direction |-> IF isLong THEN "long" ELSE "short",
                       entryIndex |-> i, entryPrice |-> entryPrice,
                       quantity |-> quantity, entryFee |-> entryFee,
                       entryInvestment |-> tradeAmount,
                       currentValue |-> actualInvestment,
                       exitIndex |-> 0, exitPrice |-> DoubleZero,
                       exitFee |-> DoubleZero, exitValue |-> DoubleZero,
                       profit |-> DoubleZero, profitPct |-> DoubleZero,
                       exitReason |-> ""]>>
              /\ currentCapital' = DoubleSub(currentCapital, tradeAmount)
    /\ pc' = "double_exit"
    /\ UNCHANGED <<i, exitSignal, trades>>
    /\ DoubleFrame

\* processExitSignals on bar 1, on the exit signal of the open position
ExitDouble ==
    /\ pc = "double_exit"
    /\ \E p \in DoublePrices :
          LET t == currentTrades[1]
              isLong == t.direction = "long"
              exitPrice ==
                  IF DoublePositive(slippagePct)
                  THEN IF isLong
                       THEN DoubleTimes(p, DoubleSub(DoubleOne, slippagePct))
                       ELSE DoubleTimes(p, DoubleAdd(DoubleOne, slippagePct))
                  ELSE p
              buybackCost == DoubleTimes(t.quantity, exitPrice)
              totalExitCost ==
                  DoubleAdd(buybackCost, DoubleTimes(buybackCost, tradeFees))
              profit ==
                  IF isLong
                  THEN DoubleSub(DoubleTimes(DoubleTimes(t.quantity, exitPrice),
                                             DoubleSub(DoubleOne, tradeFees)),
                                 t.entryInvestment)
                  ELSE DoubleSub(t.entryInvestment, totalExitCost)
              exitValue ==
                  IF isLong
                  THEN DoubleTimes(DoubleTimes(t.quantity, exitPrice),
                                   DoubleSub(DoubleOne, tradeFees))
                  ELSE DoubleAdd(t.entryInvestment, profit)
              closed ==
                  [t EXCEPT
                      !.exitPrice = exitPrice,
                      !.exitIndex = i + 1,
                      !.exitFee = DoubleTimes(DoubleTimes(t.quantity, exitPrice),
                                              tradeFees),
                      !.exitValue = exitValue,
                      !.profit = profit,
                      !.profitPct =
                          DoubleTimes(DoubleDiv(profit, t.entryInvestment),
                                      DoubleFromInt(100)),
                      !.exitReason = exitReasonToString("EXIT_SIGNAL")]
          IN  /\ price' = p
              /\ exitSignal' = IF isLong THEN -1 ELSE 1
              /\ trades' = Append(trades, closed)
              /\ currentCapital' = DoubleAdd(currentCapital, exitValue)
    /\ currentTrades' = <<>>
    /\ i' = i + 1
    /\ pc' = "double_done"
    /\ UNCHANGED entrySignal
    /\ DoubleFrame

NextDouble == EntryDouble \/ ExitDouble

SpecDouble == InitDouble /\ [][NextDouble]_vars

(***************************************************************************)
(* The account-details writer and the Python binding.                      *)
(***************************************************************************)
\* the events of a ledger, an entry and an exit per trade, in the order of
\* the push_back calls; trade_id is the 0-based index of the trade
trade_events(ledger) ==
    [k \in 1..(2 * Len(ledger)) |->
        LET t == ledger[(k + 1) \div 2]
        IN  IF k % 2 = 1
            THEN [time |-> t.entryTime, is_entry |-> TRUE,
                  amount |-> t.entryInvestment, trade_id |-> (k + 1) \div 2 - 1]
            ELSE [time |-> t.exitTime, is_entry |-> FALSE,
                  amount |-> t.exitValue, trade_id |-> (k + 1) \div 2 - 1]]

\* std::sort with the comparator a.time < b.time: the outcomes are the
\* orderings of the events by time; std::sort does not promise to keep the
\* order of events with equal times
std_sort(events) ==
    LET n == Len(events)
        perms == {f \in [1..n -> 1..n] : \A a, b \in 1..n : a # b => f[a] # f[b]}
    IN  {[k \in 1..n |-> events[f[k]]] : f \in
            {g \in perms :
                \A a, b \in 1..n :
                    a < b => ~(events[g[b]].time < events[g[a]].time)}}

\* create_account_details_with_prices up to the rows it writes, given the
\* outcome "sorted" of the sort of the events; "file" is what the output file
\* held before (the early returns do not open it).  Of the columns of a row,
\* cumulative return and drawdown are not represented
create_account_details_with_prices(ledger, prices, dates, initial_capital, sorted, file) ==
    LET m == Len(sorted)
        \* balance and the keys of active_positions after the first k events
        after[k \in 0..m] ==
            IF k = 0
            THEN [balance |-> initial_capital, active_positions |-> {}]
            ELSE LET event == sorted[k]
                 IN  IF event.is_entry
                     THEN [balance |-> Sub(after[k - 1].balance, event.amount),
                           active_positions |->
                              after[k - 1].active_positions
                                 \cup {event.trade_id}]
                     ELSE [balance |-> Add(after[k - 1].balance, event.amount),
                           active_positions |->
                              after[k - 1].active_positions
                                 \ {event.trade_id}]
        \* current_event_index after the while loop of bar b (1-based)
        current_event_index[b \in 0..Len(dates)] ==
            IF b = 0 THEN 0
            ELSE CHOOSE j \in current_event_index[b - 1]..m :
                    /\ \A q \in (current_event_index[b - 1] + 1)..j :
                          sorted[q].time <= dates[b]
                    /\ j = m \/ sorted[j + 1].time > dates[b]
        \* the loop over active_position_sizes, in the order of the ids
        position_value(active, p) ==
            LET sum[id \in 0..Len(ledger)] ==
                    IF id = 0 THEN Zero
                    ELSE Add(sum[id - 1],
                             IF (id - 1) \in active
                             THEN Mul(ledger[id].quantity, p)
                             ELSE Zero)
            IN  sum[Len(ledger)]
        row(b) ==
            LET st == after[current_event_index[b]]
                value == position_value(st.active_positions, prices[b])
            IN  [date |-> dates[b], price |-> prices[b],
                 balance |-> st.balance,
                 position_value |-> value,
                 total_value |-> Add(st.balance, value),
                 profit_loss |->
                    Sub(Add(st.balance, value), initial_capital),
                 active_trades |-> Cardinality(st.active_positions)]
    IN  IF ledger = <<>> THEN file
        ELSE IF prices = <<>> \/ dates = <<>> \/ Len(prices) # Len(dates)
        THEN file
        ELSE [b \in 1..Len(dates) |-> row(b)]

\* The backtest calls explored: prices of 1..bars bars dated 1, 2, ..., and
\* the ledger the call ends with, of at most "most" trades.  A trade is
\* entered and closed on bars of the call, with the fields the writer reads
BacktestCalls(bars, most) ==
    UNION {
        LET dates == [k \in 1..n |-> k]
        IN  UNION {
                LET Trades ==
                        {[entryTime |-> dates[e], exitTime |-> dates[x],
                          entryInvestment |-> FromInt(100),
                          quantity |-> Div(FromInt(100), prices[e]),
                          exitValue |-> value] :
                            e \in 1..n, x \in 1..n,
                            value \in {FromInt(50), FromInt(150)}}
                    Closed == {t \in Trades : t.entryTime <= t.exitTime}
                IN  {[prices |-> prices, dates |-> dates, trades |-> ledger] :
                        ledger \in UNION {[1..l -> Closed] : l \in 0..most}} :
                prices \in [1..n -> Prices]} :
        n \in 1..bars}

\* every variable of the model but the binding's
objectVars ==
    <<cfgVars, pc, i, barVars, hasProcessedEntry, currentCapital,
      totalPositionValue, lastPrice, currentTrades, trades, seriesVars,
      m_trades, result, runVars, multiVars, histVars, opened>>

\* no Backtest object exists: the objects of the binding are locals of its
\* functions
NoBacktestObject ==
    /\ args = NoArgs
    /\ pc = "none"
    /\ tradeType = "LONG"
    /\ startFund = Zero
    /\ eachTrade = Zero
    /\ tradeFees = Zero
    /\ tpStop = Zero
    /\ slStop = Zero
    /\ minHolding = 0
    /\ maxHolding = 0
    /\ slippagePct = Zero
    /\ maxPositions = 0
    /\ forceCloseAtEnd = FALSE
    /\ signalPriority = "EXIT_FIRST"
    /\ isMulti = FALSE
    /\ params = <<>>
    /\ dataSize = 0
    /\ param = 0
    /\ results = EmptyMap
    /\ refName = ""
    /\ i = 0
    /\ price = Zero
    /\ entrySignal = 0
    /\ exitSignal = 0
    /\ hasProcessedEntry = FALSE
    /\ currentCapital = Zero
    /\ totalPositionValue = Zero
    /\ lastPrice = Zero
    /\ currentTrades = <<>>
    /\ trades = <<>>
    /\ availableCapital = <<>>
    /\ positionValue = <<>>
    /\ totalCapital = <<>>
    /\ dailyReturn = <<>>
    /\ m_trades = <<>>
    /\ result = DefaultMetrics
    /\ run = "only"
    /\ inputs = <<>>
    /\ firstRun = NoRun
    /\ barStartCapital = Zero
    /\ barStartOpenCount = 0
    /\ passLog = <<>>
    /\ opened = <<>>

\* the module has been loaded: the statics are empty vectors
InitBinding ==
    /\ NoBacktestObject
    /\ last_backtest_trades = <<>>
    /\ last_backtest_prices = <<>>
    /\ last_backtest_dates = <<>>
    /\ account_details = <<>>
    /\ lastCall = <<>>

\* run_backtest(prices, entries, exits, dates, ...): the backtest, then the
\* three statics are assigned.  (A call whose constructor throws changes
\* nothing.)
run_backtest ==
    /\ \E call \in BacktestCalls(MaxBarsBinding, MaxLedgerBinding) :
          /\ last_backtest_trades' = call.trades
          /\ last_backtest_prices' = call.prices
          /\ last_backtest_dates' = call.dates
          /\ lastCall' = call
    /\ UNCHANGED <<objectVars, account_details>>

\* run_multi_backtest(prices, entries_map, exits_map, dates, ...): the
\* backtest, then getTrades() is saved unless the map of metrics is empty
\* (no strategy was given)
run_multi_backtest ==
    /\ \E call \in BacktestCalls(MaxBarsBinding, MaxLedgerBinding),
          empty \in BOOLEAN :
          /\ last_backtest_trades' =
                IF empty THEN last_backtest_trades ELSE call.trades
          /\ lastCall' = IF empty THEN [call EXCEPT !.trades = <<>>] ELSE call
    /\ UNCHANGED <<objectVars, last_backtest_prices, last_backtest_dates,
                   account_details>>

\* create_account_details_full(total_trades, initial_capital, output_file)
create_account_details_with_prices_wrapper ==
    /\ \E total_trades \in {0, 1} :
          IF total_trades <= 0
          THEN UNCHANGED account_details
          ELSE IF \/ last_backtest_trades = <<>>
                  \/ last_backtest_prices = <<>>
                  \/ last_backtest_dates = <<>>
          THEN UNCHANGED account_details
          ELSE \E sorted \in std_sort(trade_events(last_backtest_trades)) :
                  account_details' =
                     create_account_details_with_prices(
                        last_backtest_trades, last_backtest_prices,
                        last_backtest_dates, FromInt(1000), sorted,
                        account_details)
    /\ UNCHANGED <<objectVars, last_backtest_trades, last_backtest_prices,
                   last_backtest_dates, lastCall>>

NextBinding ==
    \/ run_backtest
    \/ run_multi_backtest
    \/ create_account_details_with_prices_wrapper

SpecBinding == InitBinding /\ [][NextBinding]_vars

\* the writer alone, on what one call of run_backtest saved
InitAccount ==
    /\ NoBacktestObject
    /\ lastCall \in BacktestCalls(MaxBarsAccount, MaxLedgerAccount)
    /\ last_backtest_trades = lastCall.trades
    /\ last_backtest_prices = lastCall.prices
    /\ last_backtest_dates = lastCall.dates
    /\ account_details = <<>>

SpecAccount ==
    InitAccount /\ [][create_account_details_with_prices_wrapper]_vars

(***************************************************************************)
(* Helpers of the properties.                                              *)
(***************************************************************************)
Range(f) == {f[k] : k \in DOMAIN f}

RECURSIVE SumOver(_, _)
\* the sum of F over the elements of a sequence
SumOver(F(_), ts) ==
    IF ts = <<>> THEN Zero ELSE Add(F(Head(ts)), SumOver(F, Tail(ts)))

\* the ledger's trades closed on bar `bar` by the Exit processor
ClosedOn(bar) ==
    SelectSeq(trades, LAMBDA t : t.exitIndex = bar /\ t.exitReason # EndOfBacktestReason)

\* the positions, open or closed, that were opened on bar `bar`
OpenedOn(bar) ==
    {t \in Range(currentTrades) \cup Range(trades) : t.entryIndex = bar}

(***************************************************************************)
(* C1.  In every state of every run, for every bar k, the recorded equity  *)
(* series satisfies total_capital[k] = free_capital[k] + position_value[k];*)
(* this includes the last bar after the end-of-run overwrite.              *)
(***************************************************************************)
C1_TotalIsFreePlusPosition ==
    \A k \in 1..dataSize :
        totalCapital[k] = Add(availableCapital[k], positionValue[k])

\* a finished run whose last bar was overwritten by the end-of-run flush and
\* which recorded a non-zero position value on an earlier bar
C1_Witness ==
    /\ pc = "done"
    /\ forceCloseAtEnd
    /\ \E t \in Range(trades) : t.exitReason = EndOfBacktestReason
    /\ \E k \in 1..dataSize : positionValue[k] # Zero
    /\ availableCapital[dataSize] = currentCapital

(***************************************************************************)
(* C2.  A short position open at the start of bar i and still open at its  *)
(* end contributes entry_investment + (entry_price - price[i]) * quantity  *)
(* to position_value[i]: whenever bar i is recorded, position_value[i] is  *)
(* the sum of that value over the shorts held through the bar and of the   *)
(* current value of the other open positions.                              *)
(***************************************************************************)
C2_ClaimedValue(t) ==
    IF t.direction = "short" /\ t.entryIndex < i
    THEN Add(t.entryInvestment, Mul(Sub(t.entryPrice, price), t.quantity))
    ELSE t.currentValue

C2_ShortMarkToMarket ==
    [][pc = "record" =>
          positionValue'[i + 1] = SumOver(C2_ClaimedValue, currentTrades)]_vars


(***************************************************************************)
(* The exit conditions of the specification (section 4.3), stated on a     *)
(* position t at bar `bar` with price p and exit signal sig.               *)
(***************************************************************************)
TakeProfitHolds(t, p) ==
    /\ Gt(tpStop, Zero)
    /\ IF t.direction = "long"
       THEN Ge(Sub(p, t.entryPrice), Mul(tpStop, t.entryPrice))
       ELSE Ge(Sub(t.entryPrice, p), Mul(tpStop, t.entryPrice))

StopLossHolds(t, p) ==
    /\ Gt(slStop, Zero)
    /\ IF t.direction = "long"
       THEN Le(Sub(p, t.entryPrice), Neg(Mul(slStop, t.entryPrice)))
       ELSE Le(Sub(t.entryPrice, p), Neg(Mul(slStop, t.entryPrice)))

MaxHoldingHolds(t, bar) == maxHolding > 0 /\ bar - t.entryIndex >= maxHolding

SignalMatches(t, sig) ==
    \/ t.direction = "long" /\ sig = -1
    \/ t.direction = "short" /\ sig = 1

(***************************************************************************)
(* C3.  When a bar has been processed under exit_first, the Exit processor *)
(* ran and then the Entry processor, and the entry was capacity-checked    *)
(* and sized against the open set and the capital left by that bar's       *)
(* exits; under entry_first the Entry processor ran and then the Exit      *)
(* processor, and the entry was capacity-checked and sized against the     *)
(* open set and the capital the bar started with.                          *)
(***************************************************************************)
\* the entry of the bar was decided on `openCount` open positions and sized
\* on `capital`
C3_EntryDecidedOn(openCount, capital) ==
    /\ hasProcessedEntry <=>
          /\ maxPositions = 0 \/ openCount < maxPositions
          /\ entrySignal \in {1, -1}
          /\ \/ tradeType = "LONG_SHORT"
             \/ tradeType = "LONG" /\ entrySignal = 1
             \/ tradeType = "SHORT" /\ entrySignal = -1
    /\ \A t \in OpenedOn(i) : t.entryInvestment = Mul(capital, eachTrade)
    /\ OpenedOn(i) # {} => hasProcessedEntry

C3_PriorityOrder ==
    pc = "record" =>
        /\ signalPriority = "EXIT_FIRST" =>
              /\ passLog = <<"exit", "entry">>
              /\ C3_EntryDecidedOn(
                    barStartOpenCount - Len(ClosedOn(i)),
                    Add(barStartCapital,
                        SumOver(LAMBDA t : t.exitValue, ClosedOn(i))))
        /\ signalPriority = "ENTRY_FIRST" =>
              /\ passLog = <<"entry", "exit">>
              /\ C3_EntryDecidedOn(barStartOpenCount, barStartCapital)

\* under exit_first a bar that began with the open set full closes a
\* position and opens a new one in the released slot, sized on capital that
\* includes the released amount
C3_Witness ==
    /\ pc = "record"
    /\ signalPriority = "EXIT_FIRST"
    /\ maxPositions > 0
    /\ barStartOpenCount = maxPositions
    /\ Len(ClosedOn(i)) > 0
    /\ \E t \in Range(currentTrades) :
          t.entryIndex = i /\ Gt(t.entryInvestment, Mul(barStartCapital, eachTrade))

(***************************************************************************)
(* C4.  Under same_bar_trade, when a bar has been processed no position    *)
(* opened on that bar is left open while it satisfies take-profit,         *)
(* stop-loss or max-holding, whatever the value of exits[i]; and a trade   *)
(* opened and closed on the same bar by the exit signal occurs only with   *)
(* min_holding_period = 0.                                                 *)
(***************************************************************************)
C4_SameBarTrade ==
    (pc = "record" /\ signalPriority = "SAME_BAR_TRADE") =>
        /\ \A t \in Range(currentTrades) :
              t.entryIndex = i =>
                 /\ ~TakeProfitHolds(t, price)
                 /\ ~StopLossHolds(t, price)
                 /\ ~MaxHoldingHolds(t, i)
        /\ \A t \in Range(trades) :
              (/\ t.entryIndex = i
               /\ t.exitIndex = i
               /\ t.exitReason = exitReasonToString("EXIT_SIGNAL"))
                  => minHolding = 0

(***************************************************************************)
(* C5.  Every trade the Exit processor closes on a bar carries the reason  *)
(* of the first satisfied condition in the order take-profit, stop-loss,   *)
(* max-holding, exit signal; and a position held into a bar that satisfies *)
(* one of them is not left open.                                           *)
(***************************************************************************)
C5_ReasonOf(t, bar, p, sig) ==
    IF TakeProfitHolds(t, p) THEN "Take Profit"
    ELSE IF StopLossHolds(t, p) THEN "Stop Loss"
    ELSE IF MaxHoldingHolds(t, bar) THEN "Max Holding Period Reached"
    ELSE IF SignalMatches(t, sig) /\ bar - t.entryIndex >= minHolding
        THEN "Exit Signal"
    ELSE "none"

C5_FixedExitOrder ==
    /\ \A t \in Range(ClosedOn(i)) :
          t.exitReason = C5_ReasonOf(t, i, price, exitSignal)
    /\ pc = "record" =>
          \A t \in Range(currentTrades) :
              t.entryIndex < i => C5_ReasonOf(t, i, price, exitSignal) = "none"

\* a trade closed while stop-loss and max-holding both hold, tagged stop-loss,
\* and one closed while take-profit and a matching exit signal both hold
C5_Witness ==
    /\ \E t \in Range(ClosedOn(i)) :
          /\ StopLossHolds(t, price)
          /\ MaxHoldingHolds(t, i)
          /\ t.exitReason = "Stop Loss"


(***************************************************************************)
(* C6.  No trade of the ledger closed by the exit signal was held for      *)
(* fewer than min_holding_period bars; take-profit, stop-loss and          *)
(* max-holding are not delayed by it: a position the Exit processor has    *)
(* examined on a bar is not left open while one of the three holds, also   *)
(* when it has been held for fewer than min_holding_period bars.           *)
(***************************************************************************)
\* the open positions an Exit pass of the bar has examined once the bar is
\* processed: those held into the bar and, when an Exit pass followed the
\* entry, the one opened on the bar
C6_Examined ==
    {t \in Range(currentTrades) :
        \/ t.entryIndex < i
        \/ passLog # <<>> /\ passLog[Len(passLog)] = "exit"}

C6_MinHolding ==
    /\ \A t \in Range(trades) :
          t.exitReason = exitReasonToString("EXIT_SIGNAL")
             => t.exitIndex - t.entryIndex >= minHolding
    /\ pc = "record" =>
          \A t \in C6_Examined :
              /\ ~TakeProfitHolds(t, price)
              /\ ~StopLossHolds(t, price)
              /\ ~MaxHoldingHolds(t, i)

\* an exit signal refused because the position is too young, on a run that
\* also closed a position by stop-loss before min_holding_period had passed
C6_Witness ==
    /\ pc = "record"
    /\ \E t \in C6_Examined :
          SignalMatches(t, exitSignal) /\ i - t.entryIndex < minHolding
    /\ \E t \in Range(trades) :
          /\ t.exitReason = exitReasonToString("STOP_LOSS")
          /\ t.exitIndex - t.entryIndex < minHolding

(***************************************************************************)
(* C7.  In every state of every run the number of open positions is at     *)
(* most max_positions when max_positions > 0 and at most the number of     *)
(* bars when max_positions = 0.                                            *)
(***************************************************************************)
C7_OpenCountBounded ==
    Len(currentTrades) <= (IF maxPositions > 0 THEN maxPositions ELSE dataSize)

\* an entry signal of a permitted direction refused on a full open set
C7_Witness ==
    /\ pc = "record"
    /\ maxPositions > 1
    /\ Len(currentTrades) = maxPositions
    /\ entrySignal \in {1, -1}
    /\ ~hasProcessedEntry
    /\ OpenedOn(i) = {}

C9_FreeCapitalNonNegative ==
    \A k \in 1..dataSize : Ge(availableCapital[k], Zero)

(***************************************************************************)
(* C10.  Whenever the Exit processor closes positions whose exit values    *)
(* would take the free capital below zero, a position is closed with the   *)
(* force-exit reason at the current bar and the free capital continues     *)
(* at 0.                                                                   *)
(***************************************************************************)
C10_ForceExit ==
    [][(/\ PassAt = "exit"
        /\ Len(trades') > Len(trades)
        /\ Lt(Add(currentCapital,
                  SumOver(LAMBDA t : t.exitValue,
                          SubSeq(trades', Len(trades) + 1, Len(trades')))),
              Zero))
          => /\ currentCapital' = Zero
             /\ \E k \in (Len(trades) + 1)..Len(trades') :
                   /\ trades'[k].exitReason = exitReasonToString("FORCE_EXIT")
                   /\ trades'[k].exitIndex = i]_vars

(***************************************************************************)
(* C11.  At the end of every bar the free capital is the initial capital   *)
(* less the entry_investment of the open positions plus, over the trades   *)
(* of the ledger, exit_value - entry_investment; the free capital recorded *)
(* for the bar is that amount.                                             *)
(***************************************************************************)
\* the bar loop, up to the test that ends it
C11_InLoop == pc \in {"bar", "pass1", "pass2", "pass3", "record"}

C11_Balance ==
    Add(Sub(startFund, SumOver(LAMBDA t : t.entryInvestment, currentTrades)),
        SumOver(LAMBDA t : Sub(t.exitValue, t.entryInvestment), trades))

C11_CashConservation ==
    C11_InLoop =>
        /\ currentCapital = C11_Balance
        /\ (pc = "bar" /\ i > 0) => availableCapital[i] = C11_Balance

\* a bar recorded with fees charged, a position open and a trade of non-zero
\* profit in the ledger
C11_Witness ==
    /\ pc = "bar"
    /\ i > 0
    /\ Gt(tradeFees, Zero)
    /\ currentTrades # <<>>
    /\ \E t \in Range(trades) : t.profit # Zero
    /\ availableCapital[i] = C11_Balance

(***************************************************************************)
(* C12.  In every state of a run, the states after the end-of-run flush    *)
(* included, each position that was ever opened is in exactly one of the   *)
(* open set and the ledger, and the ledger holds it at most once.          *)
(* Positions are told apart by the bar they were opened on.                *)
(***************************************************************************)
\* the number of elements of ts opened on bar b
C12_CountAt(ts, b) == Len(SelectSeq(ts, LAMBDA t : t.entryIndex = b))

\* the number of positions the run has opened on bar b
C12_OpenedAt(b) == Len(SelectSeq(opened, LAMBDA o : o.bar = b))

C12_OpenXorLedger ==
    pc # "done" =>
        \A b \in 0..(dataSize - 1) :
            /\ C12_CountAt(currentTrades, b) + C12_CountAt(trades, b)
                  = C12_OpenedAt(b)
            /\ C12_CountAt(trades, b) <= 1

(***************************************************************************)
(* C13.  During a run every step leaves the ledger it found as a prefix of *)
(* the ledger it leaves, so a trade once appended is never changed or      *)
(* removed; the ledger returned by getTrades() (m_trades) is empty until   *)
(* the run completes and changes only in the step that completes it.       *)
(***************************************************************************)
C13_IsPrefix(old, new) ==
    /\ Len(old) <= Len(new)
    /\ SubSeq(new, 1, Len(old)) = old

C13_AppendOnly ==
    /\ [](pc # "done" => m_trades = <<>>)
    /\ [][/\ C13_IsPrefix(trades, trades')
          /\ m_trades' # m_trades => (pc = "finish" /\ pc' = "done")]_vars

\* a finished run that returned a ledger appended to on two different bars
\* and by the end-of-run flush
C13_Witness ==
    /\ pc = "done"
    /\ m_trades = trades
    /\ Len(m_trades) >= 3
    /\ m_trades[1].exitIndex < m_trades[2].exitIndex
    /\ m_trades[Len(m_trades)].exitReason = EndOfBacktestReason

(***************************************************************************)
(* C14.  The ledger, while it is built and when it is returned, is ordered *)
(* non-decreasingly by exit_index; the trades appended by the end-of-run   *)
(* flush are included.                                                     *)
(***************************************************************************)
C14_Ordered(ts) ==
    \A k \in 1..(Len(ts) - 1) : ts[k].exitIndex <= ts[k + 1].exitIndex

C14_LedgerOrdered == C14_Ordered(trades) /\ C14_Ordered(m_trades)

\* a returned ledger with two trades closed on the same bar before the last
\* one, followed by a trade appended by the flush
C14_Witness ==
    /\ pc = "done"
    /\ Len(m_trades) >= 3
    /\ m_trades[1].exitIndex = m_trades[2].exitIndex
    /\ m_trades[2].exitIndex < dataSize - 1
    /\ m_trades[Len(m_trades)].exitReason = EndOfBacktestReason

(***************************************************************************)
(* C15.  Every trade of the ledger, closed by the Exit processor or by the *)
(* end-of-run flush, has exit_fee = quantity * exit_price * commission_pct;*)
(* a long one has exit_value = quantity * exit_price - exit_fee and        *)
(* profit = exit_value - entry_investment; a short one has                 *)
(* profit = entry_investment - quantity * exit_price - exit_fee and        *)
(* exit_value = entry_investment + profit.                                 *)
(***************************************************************************)
C15_TradeIdentities(t) ==
    LET proceeds == Mul(t.quantity, t.exitPrice)
    IN  /\ t.exitFee = Mul(proceeds, tradeFees)
        /\ IF t.direction = "long"
           THEN /\ t.exitValue = Sub(proceeds, t.exitFee)
                /\ t.profit = Sub(t.exitValue, t.entryInvestment)
           ELSE /\ t.profit = Sub(Sub(t.entryInvestment, proceeds), t.exitFee)
                /\ t.exitValue = Add(t.entryInvestment, t.profit)

C15_ProfitIdentities ==
    \A t \in Range(trades) \cup Range(m_trades) : C15_TradeIdentities(t)

\* a returned ledger, with fees and slippage charged, holding a long and a
\* short trade, one closed by the Exit processor and one by the flush
C15_Witness ==
    /\ pc = "done"
    /\ Gt(tradeFees, Zero)
    /\ Gt(slippagePct, Zero)
    /\ \E t, u \in Range(m_trades) :
          /\ t.direction = "long"
          /\ u.direction = "short"
          /\ t.exitReason = EndOfBacktestReason
          /\ u.exitReason = exitReasonToString("EXIT_SIGNAL")
          /\ Gt(u.exitFee, Zero)

(***************************************************************************)
(* C16.  In the equity series of a finished run bar_return[0] = 0 and, for *)
(* every i > 0, bar_return[i] = total_capital[i] / total_capital[i-1] - 1  *)
(* when total_capital[i-1] > 0 and 0 otherwise; the last bar is included   *)
(* when the end-of-run flush has overwritten total_capital[N-1].           *)
(***************************************************************************)
\* the claimed return of 0-based bar k from the series as they stand
C16_ReturnOf(k) ==
    IF k > 0 /\ Gt(totalCapital[k], Zero)
    THEN Sub(Div(totalCapital[k + 1], totalCapital[k]), One)
    ELSE Zero

C16_BarReturns ==
    pc = "done" =>
        \A k \in 0..(dataSize - 1) : dailyReturn[k + 1] = C16_ReturnOf(k)

(***************************************************************************)
(* C17.  With force_close_at_end = true the end-of-run flush appends, for  *)
(* every position open after the last bar, the trade the Exit processor    *)
(* would record when closing that position at price[N-1] on bar N-1, apart *)
(* from the exit reason: the same exit_price, exit_fee, exit_value, profit *)
(* and profit_pct; and it adds the same amounts to the free capital.       *)
(***************************************************************************)
\* the position closed as the Exit processor closes it, on the last bar
C17_ExitProcessorClose(t) ==
    CloseTrade(t, dataSize - 1, lastPrice, EndOfBacktestReason)

C17_FlushMatchesExit ==
    [][(pc = "bar" /\ i >= dataSize /\ forceCloseAtEnd) =>
          /\ Len(trades') = Len(trades) + Len(currentTrades)
          /\ \A k \in 1..Len(currentTrades) :
                trades'[Len(trades) + k]
                   = C17_ExitProcessorClose(currentTrades[k])
          /\ currentCapital' =
                Add(currentCapital,
                    SumOver(LAMBDA t : C17_ExitProcessorClose(t).exitValue,
                            currentTrades))]_vars

\* the flush has closed a long and a short position with fees and slippage
C17_Witness ==
    /\ pc = "final"
    /\ forceCloseAtEnd
    /\ Gt(tradeFees, Zero)
    /\ Gt(slippagePct, Zero)
    /\ \E t, u \in Range(currentTrades) :
          /\ t.direction = "long"
          /\ u.direction = "short"
          /\ t.exitReason = EndOfBacktestReason
          /\ u.exitReason = EndOfBacktestReason
          /\ t \in Range(trades)
          /\ u \in Range(trades)

(***************************************************************************)
(* C18.  When run() is called twice on the same object, so on the same     *)
(* configuration and the same input vectors, the second call leaves the    *)
(* trade ledger and the metrics the first call left.                       *)
(***************************************************************************)
C18_Idempotent ==
    (run = "second" /\ pc = "done") =>
        /\ m_trades = firstRun.trades
        /\ result = firstRun.result

\* a second call completed on a run that closes a winning and a losing trade
\* and ends with a capital other than the initial one
C18_Witness ==
    /\ run = "second"
    /\ pc = "done"
    /\ Len(m_trades) >= 2
    /\ result.winningTrades >= 1
    /\ result.winningTrades < result.totalTrades
    /\ result.endValue # startFund
    /\ result = firstRun.result

(***************************************************************************)
(* C19.  Every position ever opened was opened on an entry value of +1 or  *)
(* -1, long on +1 and short on -1, and its direction is permitted by       *)
(* trade_type: long positions only with long or long_short, short          *)
(* positions only with short or long_short.                                *)
(***************************************************************************)
C19_Permitted(direction) ==
    \/ tradeType = "LONG_SHORT"
    \/ tradeType = "LONG" /\ direction = "long"
    \/ tradeType = "SHORT" /\ direction = "short"

C19_DirectionPermitted ==
    /\ \A o \in Range(opened) :
          /\ o.signal \in {1, -1}
          /\ o.direction = (IF o.signal = 1 THEN "long" ELSE "short")
          /\ C19_Permitted(o.direction)
    /\ \A t \in Range(currentTrades) \cup Range(trades) :
          /\ t.direction \in {"long", "short"}
          /\ C19_Permitted(t.direction)

\* a short-only run that has opened a position and, on the bar just
\* processed, refused an entry value of +1 with capital and capacity free
C19_Witness ==
    /\ pc = "record"
    /\ tradeType = "SHORT"
    /\ opened # <<>>
    /\ entrySignal = 1
    /\ ~hasProcessedEntry
    /\ maxPositions = 0
    /\ Gt(currentCapital, Zero)

(***************************************************************************)
(* C20.  Under each of the three signal priorities at most one position is *)
(* opened on a bar: no two openings of a run are on the same bar, and no   *)
(* two positions of the open set, or of the ledger, have the same          *)
(* entry_index.                                                            *)
(***************************************************************************)
C20_DistinctBars(f, BarOf(_)) ==
    \A j, k \in DOMAIN f : j # k => BarOf(f[j]) # BarOf(f[k])

C20_OneEntryPerBar ==
    /\ C20_DistinctBars(opened, LAMBDA o : o.bar)
    /\ C20_DistinctBars(currentTrades, LAMBDA t : t.entryIndex)
    /\ C20_DistinctBars(trades, LAMBDA t : t.entryIndex)

\* under same_bar_trade with unlimited capacity a position was opened and
\* closed on the bar just processed, and no second one was opened on it,
\* while positions were opened on two earlier bars
C20_Witness ==
    /\ pc = "record"
    /\ signalPriority = "SAME_BAR_TRADE"
    /\ maxPositions = 0
    /\ passLog = <<"exit", "entry", "exit">>
    /\ \E t \in Range(trades) : t.entryIndex = i /\ t.exitIndex = i
    /\ Len(opened) = 3
    /\ Gt(currentCapital, Zero)


(***************************************************************************)
(* C21.  A single-run Backtest whose prices, entries, exits and dates      *)
(* vectors do not all have the same length is rejected at construction:    *)
(* the constructor throws, and no simulation is performed - the ledger is  *)
(* empty, the metrics are the default ones and no equity series exists.    *)
(***************************************************************************)
C21_Sizes(a) == {a.prices, a.entrySignals, a.exitSignals, a.dates}

C21_NoSimulation ==
    /\ trades = <<>>
    /\ m_trades = <<>>
    /\ opened = <<>>
    /\ result = DefaultMetrics
    /\ results = EmptyMap
    /\ totalCapital = <<>>

C21_SizeMismatchRejected ==
    (args.kind = "single" /\ pc # "new" /\ Cardinality(C21_Sizes(args)) > 1)
        => pc = "threw" /\ C21_NoSimulation

\* the constructor has thrown on vectors of which only the dates differ
C21_Witness ==
    /\ pc = "threw"
    /\ args.kind = "single"
    /\ args.prices = 2
    /\ args.entrySignals = 2
    /\ args.exitSignals = 2
    /\ args.dates = 1
    /\ C21_NoSimulation


(***************************************************************************)
(* C22.  A multi-run Backtest is rejected at construction, with no         *)
(* simulation performed, whenever a name is in one of the entries/exits    *)
(* maps but not in the other, or a signal vector or the dates vector       *)
(* differs in length from prices - an exits-only name and empty maps with  *)
(* prices and dates of different lengths included.                         *)
(***************************************************************************)
C22_Mismatch(a) ==
    \/ DOMAIN a.entrySignals # DOMAIN a.exitSignals
    \/ \E n \in DOMAIN a.entrySignals : a.entrySignals[n] # a.prices
    \/ \E n \in DOMAIN a.exitSignals : a.exitSignals[n] # a.prices
    \/ a.dates # a.prices

C22_MultiMismatchRejected ==
    (args.kind = "multi" /\ pc # "new" /\ C22_Mismatch(args))
        => pc = "threw" /\ C21_NoSimulation

\* the part the constructor does enforce: every name of the entries map has
\* exits, and its vectors and the dates are as long as prices
C22_EntriesChecked ==
    (/\ args.kind = "multi"
     /\ pc # "new"
     /\ \E n \in DOMAIN args.entrySignals :
           \/ n \notin DOMAIN args.exitSignals
           \/ args.entrySignals[n] # args.prices
           \/ args.exitSignals[n] # args.prices
           \/ args.dates # args.prices)
        => pc = "threw" /\ C21_NoSimulation


(***************************************************************************)
(* C23.  A Backtest constructed with an unknown trade_type or              *)
(* signal_priority string, or with a negative initial capital, is rejected *)
(* at construction: the constructor throws and leaves no object; it never  *)
(* falls back to a default.  A string is taken as known when it is one of  *)
(* the documented identifiers in any case.                                 *)
(***************************************************************************)
C23_UnknownTradeType(a) ==
    ToLowerString(a.tradeType) \notin {long, short, long_short}

C23_UnknownPriority(a) ==
    ToLowerString(a.signalPriorityMode)
        \notin {exit_first, entry_first, same_bar_trade}

C23_NegativeCapital(a) == Lt(a.initialCapital, Zero)

C23_InvalidRejected ==
    (/\ pc # "new"
     /\ \/ C23_UnknownTradeType(args)
        \/ C23_UnknownPriority(args)
        \/ C23_NegativeCapital(args))
        => pc = "threw" /\ C21_NoSimulation


(***************************************************************************)
(* C30.  The trade-type strings documented on the constructor (long_only,  *)
(* short_only, long_short) select the corresponding filter: a Backtest     *)
(* constructed with tradeType = "short_only" opens a short position on     *)
(* entries[i] = -1 and never opens a long one; one constructed with        *)
(* "long_only" opens only long positions.                                  *)
(***************************************************************************)
C30_Documented(type) ==
    CASE type = long_only -> {"long"}
      [] type = short_only -> {"short"}
      [] type = long_short -> {"long", "short"}
      [] OTHER -> {}

C30_DirectionOf(sig) == IF sig = 1 THEN "long" ELSE "short"

C30_DocumentedFilter ==
    (/\ args.kind = "single"
     /\ args.tradeType \in {long_only, short_only, long_short}
     /\ pc \notin {"new", "threw"})
        => \* only the documented directions are opened
           /\ \A k \in 1..Len(opened) :
                 opened[k].direction \in C30_Documented(args.tradeType)
           \* an entry signal of a documented direction, examined with free
           \* capital, opens a position of that direction
           /\ (/\ passLog # <<>>
               /\ passLog[Len(passLog)] = "entry"
               /\ entrySignal # 0
               /\ C30_DirectionOf(entrySignal) \in C30_Documented(args.tradeType)
               /\ Gt(currentCapital, Zero))
                  => /\ hasProcessedEntry
                     /\ opened # <<>>
                     /\ opened[Len(opened)].bar = i
                     /\ opened[Len(opened)].direction
                            = C30_DirectionOf(entrySignal)

\* the same statement for the strings the parser knows
C30_ParsedFilter ==
    (/\ args.kind = "single"
     /\ ToLowerString(args.tradeType) \in {long, short, long_short}
     /\ pc \notin {"new", "threw"})
        => LET permitted ==
                   CASE ToLowerString(args.tradeType) = long -> {"long"}
                     [] ToLowerString(args.tradeType) = short -> {"short"}
                     [] OTHER -> {"long", "short"}
           IN  /\ \A k \in 1..Len(opened) : opened[k].direction \in permitted
               /\ (/\ passLog # <<>>
                   /\ passLog[Len(passLog)] = "entry"
                   /\ entrySignal # 0
                   /\ C30_DirectionOf(entrySignal) \in permitted
                   /\ Gt(currentCapital, Zero))
                      => /\ hasProcessedEntry
                         /\ opened # <<>>
                         /\ opened[Len(opened)].bar = i
                         /\ opened[Len(opened)].direction
                                = C30_DirectionOf(entrySignal)


(***************************************************************************)
(* C24.  Running a Backtest constructed on an empty price series (N = 0)   *)
(* completes, reads no vector outside its bounds, and yields the default   *)
(* (zero-initialised) metrics and an empty ledger.                         *)
(***************************************************************************)
C24_EmptySeries ==
    (args.kind = "single" /\ dataSize = 0 /\ pc \notin {"new", "threw"})
        => /\ pc # "crashed"
           /\ lastPrice # Indeterminate
           /\ pc = "done" =>
                 /\ result = DefaultMetrics
                 /\ m_trades = <<>>

\* what does hold when the run survives the read
C24_EmptyRunResult ==
    (args.kind = "single" /\ dataSize = 0 /\ pc = "done")
        => /\ result = DefaultMetrics
           /\ m_trades = <<>>


(***************************************************************************)
(* C27.  Every trade of the returned ledger has direction long or short    *)
(* and an exit_reason that is one of the stable identifiers take_profit,   *)
(* stop_loss, exit_signal, max_holding_period, end_of_backtest,            *)
(* force_exit.                                                             *)
(***************************************************************************)
C27_StableReasons ==
    {"take_profit", "stop_loss", "exit_signal", "max_holding_period",
     "end_of_backtest", "force_exit"}

C27_EnumStrings ==
    \A k \in 1..Len(m_trades) :
        /\ m_trades[k].direction \in {"long", "short"}
        /\ m_trades[k].exitReason \in C27_StableReasons

\* the strings the ledger does carry
C27_WrittenStrings ==
    \A k \in 1..Len(m_trades) :
        /\ m_trades[k].direction \in {"long", "short"}
        /\ m_trades[k].exitReason \in
              {"Take Profit", "Stop Loss", "Exit Signal",
               "Max Holding Period Reached", "End of Backtest"}


(***************************************************************************)
(* C28.  With commission_pct = 0 and slippage_pct = 0, every trade (long   *)
(* or short) whose exit bar price equals its entry bar price has           *)
(* profit = 0 and returns exactly entry_investment to free_capital.        *)
(***************************************************************************)
\* in double arithmetic, as the program computes
C28_RoundTripExact ==
    \A k \in 1..Len(trades) :
        trades[k].exitPrice = trades[k].entryPrice
            => /\ trades[k].profit = DoubleZero
               /\ trades[k].exitValue = trades[k].entryInvestment
               /\ currentCapital = startFund

\* in exact arithmetic the identity holds
C28_ExactArithmetic ==
    (tradeFees = Zero /\ slippagePct = Zero)
        => \A k \in 1..Len(trades) :
              trades[k].exitPrice = trades[k].entryPrice
                  => /\ trades[k].profit = Zero
                     /\ trades[k].exitValue = trades[k].entryInvestment

(***************************************************************************)
(* C29: the ratio-style metrics on degenerate inputs.                      *)
(***************************************************************************)
\* the run has ended and calculateMetrics went past its early return
C29_MetricsComputed == pc = "done" /\ totalCapital # <<>>

\* no return of the run is below zero: the downside deviation is degenerate
C29_NoDownside ==
    \A k \in 1..Len(dailyReturn) : ~Lt(dailyReturn[k], Zero)

\* the drawdown loop divides by a peak of zero
C29_DividesByZero == C29_MetricsComputed /\ DrawdownOf(totalCapital).zeroPeak

\* the Sortino ratio of a run without downside is 100
C29_SortinoHundred ==
    /\ C29_MetricsComputed
    /\ C29_NoDownside
    /\ calculateSortinoRatio(dailyReturn) = Hundred

\* the maximum drawdown itself stays finite: std::max drops the NaN
C29_DrawdownFinite ==
    C29_MetricsComputed => IsFinite(calculateMaxDrawdown(totalCapital))

\* C29: when the metrics of a completed run are computed, no division has a
\* zero denominator, the win rate, the profit factor and the maximum drawdown
\* are finite, and the Sortino ratio of a run whose returns have no downside
\* is 0
C29_DegenerateMetricsZero ==
    C29_MetricsComputed =>
        /\ startFund # Zero
        /\ ~DrawdownOf(totalCapital).zeroPeak
        /\ IsFinite(calculateMaxDrawdown(totalCapital))
        /\ IsFinite(calculateMetrics(totalCapital, m_trades).winRate)
        /\ IsFinite(calculateMetrics(totalCapital, m_trades).profitFactor)
        /\ C29_NoDownside => calculateSortinoRatio(dailyReturn) = Zero


(***************************************************************************)
(* C25: the strategies of a multi-run are independent.                     *)
(***************************************************************************)
\* on entry to the run of a strategy nothing of an earlier strategy is left
C25_FreshStart ==
    (isMulti /\ pc = "bar" /\ i = 0) =>
        /\ currentCapital = startFund
        /\ currentTrades = <<>>
        /\ trades = <<>>
        /\ availableCapital = Filled(dataSize, startFund)
        /\ positionValue = Filled(dataSize, Zero)
        /\ totalCapital = Filled(dataSize, startFund)
        /\ dailyReturn = Filled(dataSize, Zero)

\* the single run of refName's pair has ended
C25_ReferenceDone == pc = "done" /\ run = "reference"

\* C25: every strategy of a multi-run starts from the initial capital with an
\* empty open set and a fresh equity series, and the metrics the multi-run
\* stored under a name equal the metrics of a single run of the same
\* configuration on that name's entries and exits, whether the name ran first
\* or last and whatever the other strategy did
C25_MultiEqualsSingle ==
    /\ C25_FreshStart
    /\ C25_ReferenceDone => firstRun.result = result

\* two strategies, the second compared with its single run: both traded and
\* the first one ended with another equity than it started with
C25_Witness ==
    /\ C25_ReferenceDone
    /\ DOMAIN results = {"a", "b"}
    /\ refName = "b"
    /\ results["a"].totalTrades > 0
    /\ results["a"].endValue # startFund
    /\ result.totalTrades > 0
    /\ results["a"] # results["b"]

(***************************************************************************)
(* C26: getTrades() after a multi-run.                                     *)
(***************************************************************************)
\* the trades of a ledger entered on a bar in a direction
C26_Entered(ledger, bar, dir) ==
    {k \in 1..Len(ledger) :
        ledger[k].entryIndex = bar /\ ledger[k].direction = dir}

\* the positions the running strategy opened on a bar in a direction
C26_Opened(bar, dir) ==
    {k \in 1..Len(opened) : opened[k].bar = bar /\ opened[k].direction = dir}

\* the name that runs last
C26_LastName == Keys(args.entrySignals)[Len(Keys(args.entrySignals))]

C31_Expected(amount, sig) ==
    LET fee == Mul(amount, tradeFees)
        fill == IF sig = 1 THEN Mul(price, Add(One, slippagePct))
                           ELSE Mul(price, Sub(One, slippagePct))
    IN  [direction |-> IF sig = 1 THEN "long" ELSE "short",
         entryIndex |-> i,
         entryPrice |-> fill,
         entryInvestment |-> amount,
         entryFee |-> fee,
         quantity |-> Div(Sub(amount, fee), fill),
         currentValue |-> Sub(amount, fee)]

\* the entry fields of a position
C31_EntryFields(t) ==
    [direction |-> t.direction, entryIndex |-> t.entryIndex,
     entryPrice |-> t.entryPrice, entryInvestment |-> t.entryInvestment,
     entryFee |-> t.entryFee, quantity |-> t.quantity,
     currentValue |-> t.currentValue]

\* C31: a call of the Entry processor either leaves the open set and the free
\* capital as they are, or appends one position; when it appends one, the
\* amount free capital * position size (free capital as the call finds it) is
\* positive, that amount is removed from the free capital, and the position
\* carries it as entryInvestment with the fee, quantity, value and fill price
\* derived from it; when the amount is not positive nothing is opened
C31_EntryAmounts ==
    [][PassAt = "entry" =>
          LET amount == Mul(currentCapital, eachTrade)
              n == Len(currentTrades)
          IN  IF Len(currentTrades') > n
              THEN /\ Gt(amount, Zero)
                   /\ Len(currentTrades') = n + 1
                   /\ SubSeq(currentTrades', 1, n) = currentTrades
                   /\ currentCapital' = Sub(currentCapital, amount)
                   /\ C31_EntryFields(currentTrades'[n + 1])
                         = C31_Expected(amount, entrySignal)
              ELSE /\ currentTrades' = currentTrades
                   /\ currentCapital' = currentCapital]_vars

\* a short has just been opened with a fee and slippage, by a call that found
\* less free capital than the run started with
C31_Witness ==
    /\ passLog # <<>>
    /\ passLog[Len(passLog)] = "entry"
    /\ currentTrades # <<>>
    /\ currentTrades[Len(currentTrades)].entryIndex = i
    /\ currentTrades[Len(currentTrades)].direction = "short"
    /\ Gt(tradeFees, Zero)
    /\ Gt(slippagePct, Zero)
    /\ Lt(Add(currentCapital,
              currentTrades[Len(currentTrades)].entryInvestment), startFund)

\* an entry signal of a permitted direction has been examined with no free
\* capital: nothing was opened
C31_NothingOpened ==
    /\ passLog # <<>>
    /\ passLog[Len(passLog)] = "entry"
    /\ hasProcessedEntry
    /\ currentCapital = Zero
    /\ \A k \in 1..Len(currentTrades) : currentTrades[k].entryIndex # i


(***************************************************************************)
(* C32: closing a position on the bar on which it was opened.              *)
(***************************************************************************)
\* the trades of a ledger that the Exit processor closed on their opening bar
C32_SameBar(ledger) ==
    {k \in 1..Len(ledger) :
        /\ ledger[k].exitReason # EndOfBacktestReason
        /\ ledger[k].exitIndex <= ledger[k].entryIndex}

\* C32 as stated: under EXIT_FIRST and under ENTRY_FIRST every trade the Exit
\* processor closed has exitIndex > entryIndex
C32_OnlySameBarTrade ==
    signalPriority \in {"EXIT_FIRST", "ENTRY_FIRST"} =>
        C32_SameBar(trades) = {} /\ C32_SameBar(m_trades) = {}

\* C32: under EXIT_FIRST every trade the Exit processor closed has
\* exitIndex > entryIndex (ENTRY_FIRST, which runs the Exit processor after
\* the Entry processor, closes positions on their opening bar as
\* SAME_BAR_TRADE does)
C32_ExitFirstNextBar ==
    signalPriority = "EXIT_FIRST" =>
        C32_SameBar(trades) = {} /\ C32_SameBar(m_trades) = {}

\* under EXIT_FIRST without a minimum holding period, a position opened on a
\* bar that carried its exit signal was closed by a later bar's signal
C32_Witness ==
    /\ signalPriority = "EXIT_FIRST"
    /\ minHolding = 0
    /\ pc = "done"
    /\ \E k \in 1..Len(m_trades) :
          /\ m_trades[k].exitReason = exitReasonToString("EXIT_SIGNAL")
          /\ m_trades[k].exitIndex = m_trades[k].entryIndex + 1


(***************************************************************************)
(* C33: the end value of a flushed run.                                    *)
(***************************************************************************)
RECURSIVE C33_SumProfit(_)
\* the sum of profit over a ledger
C33_SumProfit(ledger) ==
    IF ledger = <<>> THEN Zero
    ELSE Add(Head(ledger).profit, C33_SumProfit(Tail(ledger)))

\* C33: when a run with forceCloseAtEnd has returned, the reported end value
\* and totalCapital[N-1] equal startFund plus the sum of profit over the
\* trades of the ledger
C33_EndValueIsProfit ==
    (pc = "done" /\ forceCloseAtEnd) =>
        /\ result.endValue = Add(startFund, C33_SumProfit(m_trades))
        /\ totalCapital[dataSize] = result.endValue

\* a flushed run whose ledger holds a trade closed in the loop and a flushed
\* one, with a gain and a loss among them
C33_Witness ==
    /\ pc = "done"
    /\ forceCloseAtEnd
    /\ \E j, k \in 1..Len(m_trades) :
          /\ m_trades[j].exitReason # EndOfBacktestReason
          /\ m_trades[k].exitReason = EndOfBacktestReason
          /\ Gt(m_trades[j].profit, Zero)
          /\ Lt(m_trades[k].profit, Zero)
    /\ result.endValue # startFund


(***************************************************************************)
(* C34: fees and profit.                                                   *)
(***************************************************************************)
\* without slippage the fill prices are the bar prices: the trade was closed
\* at the price it was opened at
C34_SamePrice(t) == t.exitPrice = t.entryPrice

\* C34: without slippage and with a commission, every trade of the ledger,
\* long or short, that was closed at the price of its entry bar has
\* profit <= 0
C34_FeesNeverProfit ==
    (slippagePct = Zero /\ Gt(tradeFees, Zero)) =>
        \A k \in 1..Len(trades) :
            C34_SamePrice(trades[k]) => Le(trades[k].profit, Zero)

\* a long closed at the price of its entry bar loses the two fees
C34_LongLoses ==
    (slippagePct = Zero /\ Gt(tradeFees, Zero)) =>
        \A k \in 1..Len(trades) :
            (C34_SamePrice(trades[k]) /\ trades[k].direction = "long")
               => Lt(trades[k].profit, Zero)


(***************************************************************************)
(* C35: the end of a run without forceCloseAtEnd.                          *)
(***************************************************************************)
\* the bar loop has ended and the run has not yet returned
C35_AfterLoop ==
    \/ pc = "bar" /\ i >= dataSize
    \/ pc \in {"final", "finish"}

\* C35: in a run without forceCloseAtEnd no trade carries the reason of the
\* end-of-run flush; from the end of the bar loop to the return the ledger
\* and the four series stay as the loop left them; and the ledger the run
\* stores, and totalTrades, count the positions opened less those still open
C35_NoFlush ==
    /\ [](~forceCloseAtEnd =>
             /\ \A k \in 1..Len(trades) :
                   trades[k].exitReason # EndOfBacktestReason
             /\ \A k \in 1..Len(m_trades) :
                   m_trades[k].exitReason # EndOfBacktestReason)
    /\ [][(C35_AfterLoop /\ ~forceCloseAtEnd) =>
             /\ trades' = trades
             /\ availableCapital' = availableCapital
             /\ positionValue' = positionValue
             /\ totalCapital' = totalCapital
             /\ dailyReturn' = dailyReturn
             /\ pc' = "done" =>
                   /\ m_trades' = trades
                   /\ Len(m_trades') = Len(opened) - Len(currentTrades)
                   /\ result'.totalTrades = Len(m_trades')]_vars

\* a run without forceCloseAtEnd has returned with a trade in its ledger and
\* a position left open, valued in the last bar of the series
C35_Witness ==
    /\ pc = "done"
    /\ ~forceCloseAtEnd
    /\ m_trades # <<>>
    /\ Len(opened) > Len(m_trades)
    /\ Gt(positionValue[dataSize], Zero)
    /\ result.totalTrades = Len(m_trades)

(***************************************************************************)
(* C36                                                                     *)
(***************************************************************************)
\* create_account_details_full reaches the call of the writer
C36_WriterCalled ==
    /\ last_backtest_trades # <<>>
    /\ last_backtest_prices # <<>>
    /\ last_backtest_dates # <<>>

\* C36: after any sequence of run_backtest and run_multi_backtest calls, the
\* trades, prices and dates that create_account_details_full gives to the
\* writer are those of the most recent backtest call.
\* Violated: run_multi_backtest saves the trades only, so that after a
\* run_backtest its ledger is paired with the prices and dates of that
\* earlier call.
C36_SameCall ==
    C36_WriterCalled =>
        /\ last_backtest_trades = lastCall.trades
        /\ last_backtest_prices = lastCall.prices
        /\ last_backtest_dates = lastCall.dates

\* the divergence itself: the ledger of the most recent call, of two bars,
\* is written against the one bar of an earlier call
C36_StalePrices ==
    /\ C36_WriterCalled
    /\ last_backtest_trades = lastCall.trades
    /\ Len(lastCall.dates) = 2
    /\ Len(last_backtest_dates) = 1
    /\ Len(account_details) = 1

(***************************************************************************)
(* C37                                                                     *)
(***************************************************************************)
\* the trades of the ledger written that have not exited by date d
C37_NotExited(d) ==
    {k \in 1..Len(last_backtest_trades) :
        last_backtest_trades[k].exitTime > d}

\* the value at price p of the trades of the ledger in the set open
C37_ValueOf(open, p) ==
    LET sum[k \in 0..Len(last_backtest_trades)] ==
            IF k = 0 THEN Zero
            ELSE Add(sum[k - 1],
                     IF k \in open
                     THEN Mul(last_backtest_trades[k].quantity, p)
                     ELSE Zero)
    IN  sum[Len(last_backtest_trades)]

\* C37: in the rows written for a ledger whose trades exit at or after their
\* entry, on a bar dated at or after a trade's exit the trade is counted
\* neither in Active Trades nor in Position Value, even when the trade was
\* entered and closed at the same timestamp.
\* Violated: the events are ordered by std::sort on the time alone; when the
\* exit of a same-bar trade is put before its entry the trade stays in
\* active_positions to the last row.
C37_ExitedNotCounted ==
    \A b \in 1..Len(account_details) :
        LET row == account_details[b]
            open == C37_NotExited(row.date)
        IN  /\ row.active_trades <= Cardinality(open)
            /\ Le(row.position_value, C37_ValueOf(open, row.price))

\* the part of C37 that holds: once every trade has exited, the balance is
\* initial_capital plus the sum of exit_value - entry_investment
C37_FinalBalance ==
    account_details # <<>> =>
        LET last == account_details[Len(account_details)]
            sum[k \in 0..Len(last_backtest_trades)] ==
                IF k = 0 THEN FromInt(1000)
                ELSE Add(sum[k - 1],
                         Sub(last_backtest_trades[k].exitValue,
                             last_backtest_trades[k].entryInvestment))
        IN  C37_NotExited(last.date) = {} =>
                last.balance = sum[Len(last_backtest_trades)]

\* rows have been written for a ledger with a same-bar trade and a trade
\* held over a bar
C37_SameBarWritten ==
    /\ account_details # <<>>
    /\ \E k \in 1..Len(last_backtest_trades) :
          last_backtest_trades[k].entryTime = last_backtest_trades[k].exitTime
    /\ \E k \in 1..Len(last_backtest_trades) :
          last_backtest_trades[k].entryTime < last_backtest_trades[k].exitTime

====
